---- MODULE Spec2Model ----
(***************************************************************************)
(* A model of the topo/atlas repository: the token budget and the file    *)
(* roles of atlas-core, the deep index of atlas-index (build, incremental  *)
(* merge, store) as driven by the index command and the tool server of     *)
(* atlas-cli, the scanner of topo-scanner, and the import resolution and   *)
(* PageRank of atlas-score.                                                *)
(***************************************************************************)
EXTENDS Integers, Sequences, FiniteSets, TLC

VARIABLES
    files,        \* TokenBudget::enforce: the score-sorted input list
    budget,       \* TokenBudget::enforce: the TokenBudget (self)
    result,       \* TokenBudget::enforce: the returned list
    bpc,          \* "input" before enforce has run, "done" after
    repo,         \* the working tree: path -> the file's bytes (NoFile when absent)
    disk,         \* the index file .atlas/index.json
    run,          \* what the last index command did (its locals and its outcome)
    corpus,       \* corpus statistics: the FileEntry sequence they are folded from
    stats,        \* corpus statistics: total_docs and avg_doc_length, once computed
    calls,        \* tool-server calls in flight: call id -> its position and locals
    index_file,   \* .atlas/index.json as concurrent calls see it, write by write
    par,          \* one IndexBuilder::build: its input, its work units, its result
    ig,           \* build_import_graph: all_paths and the graph so far
    go,           \* resolve_go: the repository paths, the import and the result
    fr,           \* FileRole::from_path: the path and the role returned
    sc,           \* Scanner::scan: the tree, the walker's position, the files so far
    pr,           \* ImportGraph::pagerank: the graph, the scores, the round
    ch,           \* RegexChunker::chunk: the content, the language and the chunks
    tk,           \* tokenize_identifier: the identifier and its tokens
    gi,           \* extract_go_imports: the content and the imports returned
    ini,          \* topo init: the project's files and the last action's outcome
    mi,           \* the tool server's index: the repository, the index on disk
    qy,           \* one query: the ranking, the parameters and the files returned
    qk,           \* one quick run: its preset, its steps and the index on disk
    gr            \* an ImportGraph under construction and the calls made on it

bvars == <<files, budget, result, bpc>>

ivars == <<repo, disk, run>>

svars == <<corpus, stats>>

cvars == <<calls, index_file>>

\* The variables of the specifications that follow the first three.
\* The variables of the specifications after SpecCalls.
LaterVars == <<par, ig, go, fr, sc, pr>>

\* The variables of the specifications after SpecRank.
tvars == <<ch, tk, gi, ini, mi, qy, qk, gr>>

xvars == <<cvars, LaterVars, tvars>>

vars == <<files, budget, result, bpc, repo, disk, run, corpus, stats, xvars>>

(***************************************************************************)
(* Option<T>: None is the empty sequence, Some(v) the one-element one.     *)
(***************************************************************************)
None == <<>>

Some(v) == <<v>>

IsPrefix(s, t) == Len(s) <= Len(t) /\ \A i \in 1..Len(s) : s[i] = t[i]

(***************************************************************************)
(* atlas-index: the working tree the index is built from                   *)
(***************************************************************************)
MaxFiles == 2

ShaLen == 32

CurrentVersion == 1

Range(s) == {s[i] : i \in 1..Len(s)}

Count(s, t) == Cardinality({i \in 1..Len(s) : s[i] = t})

\* Repository paths, in byte-lexicographic order.
PathPool == <<"auth.rs", "db.rs", "main.rs", "util.rs">>

PathIdx == 1..MaxFiles

Paths == {PathPool[i] : i \in PathIdx}

\* Chunk (atlas-core).
Chunk(kind, name, line, content) ==
    [kind |-> kind, name |-> name, start_line |-> line, end_line |-> line,
     content |-> content]

ChunkKinds == {"Function", "Type", "Impl", "Import", "Other"}

\* The bytes of a file, given by what the code derives from them: id stands
\* for the byte string (equal ids, equal bytes), utf8 says whether
\* read_to_string succeeds, body is tokenize_content of the text and chunks
\* is what default_chunker().chunk returns for it.
NoFile == [id |-> 0, utf8 |-> FALSE, body |-> <<>>, chunks |-> <<>>]

\* "fn auth() {}"
TextAuth ==
    [id |-> 1, utf8 |-> TRUE, body |-> <<"fn", "auth">>,
     chunks |-> <<Chunk("Function", "auth", 1, "")>>]

\* "use auth;" / "struct Db {}" / "impl Db {}"
TextDb ==
    [id |-> 2, utf8 |-> TRUE,
     body |-> <<"use", "auth", "struct", "db", "impl", "db">>,
     chunks |-> <<Chunk("Import", "auth", 1, ""), Chunk("Type", "Db", 2, ""),
                  Chunk("Impl", "Db", 3, "")>>]

\* Bytes that are not UTF-8.
Blob == [id |-> 3, utf8 |-> FALSE, body |-> <<>>, chunks |-> <<>>]

FileBytes == {TextAuth, TextDb, Blob}

\* hash::sha256_file: a digest of ShaLen bytes, collision-free on FileBytes.
sha256_file(bytes) == [i \in 1..ShaLen |-> bytes.id]

\* FileInfo, reduced to the fields the index reads.
FileInfo(path, bytes) == [path |-> path, sha256 |-> sha256_file(bytes)]

\* Scanner::scan: one FileInfo per regular file, sorted by path.
RECURSIVE scan_from(_, _)
scan_from(tree, i) ==
    IF i > MaxFiles THEN <<>>
    ELSE IF tree[PathPool[i]] = NoFile THEN scan_from(tree, i + 1)
         ELSE <<FileInfo(PathPool[i], tree[PathPool[i]])>> \o scan_from(tree, i + 1)

scan(tree) == scan_from(tree, 1)

(***************************************************************************)
(* atlas-index: IndexBuilder                                               *)
(***************************************************************************)
\* tokenize_path on the paths of PathPool: split on / . - _, camel-case
\* split, pieces shorter than 2 dropped, lowercased.
tokenize_path(path) ==
    CASE path = "auth.rs" -> <<"auth", "rs">>
      [] path = "db.rs" -> <<"db", "rs">>
      [] path = "main.rs" -> <<"main", "rs">>
      [] path = "util.rs" -> <<"util", "rs">>

\* tokenize_identifier on the chunk names that occur.
tokenize_identifier(name) ==
    CASE name = "auth" -> <<"auth">>
      [] name = "Db" -> <<"db">>
      [] OTHER -> <<>>

IsSymbolKind(kind) == kind \in {"Function", "Type", "Impl"}

RECURSIVE symbol_tokens(_)
symbol_tokens(chunks) ==
    IF chunks = <<>> THEN <<>>
    ELSE (IF IsSymbolKind(Head(chunks).kind)
          THEN tokenize_identifier(Head(chunks).name) ELSE <<>>)
         \o symbol_tokens(Tail(chunks))

\* TermFreqs of term t, counted field by field.
TermFreqs(ft, st, bt, t) ==
    [filename |-> Count(ft, t), symbols |-> Count(st, t), body |-> Count(bt, t)]

build_file_entry(info, content) ==
    LET filename_tokens == tokenize_path(info.path)
        body_tokens == content.body
        chunks == content.chunks
        symbols == symbol_tokens(chunks)
    IN  [sha256 |-> info.sha256,
         chunks |-> chunks,
         term_frequencies |->
             [t \in Range(filename_tokens) \cup Range(body_tokens) \cup Range(symbols)
                 |-> TermFreqs(filename_tokens, symbols, body_tokens, t)],
         doc_length |-> Len(body_tokens)]

\* The parallel phase of build: filter_map over the FileInfo list, a file
\* that cannot be read as UTF-8 text yields nothing; collect keeps the order.
RECURSIVE build_entries(_, _)
build_entries(infos, tree) ==
    IF infos = <<>> THEN <<>>
    ELSE LET info == Head(infos)
             content == tree[info.path]
         IN  (IF content.utf8
              THEN <<[path |-> info.path, entry |-> build_file_entry(info, content)]>>
              ELSE <<>>)
             \o build_entries(Tail(infos), tree)

\* A slip: every entry is taken to be as long as the first one collected.
total_length_first(entries) ==
    IF entries = <<>> THEN 0 ELSE Head(entries).doc_length * Len(entries)

\* total_length: the sum of doc_length over a sequence of FileEntry.
RECURSIVE total_length(_)
total_length(entries) ==
    IF entries = <<>> THEN 0
    ELSE Head(entries).doc_length + total_length(Tail(entries))

(***************************************************************************)
(* f64 arithmetic on the values the corpus statistics take: a finite       *)
(* non-negative double is zero or mant * 2^exp, mant a MantBits-bit binary *)
(* numeral (most significant bit first, leading bit 1). Every operation    *)
(* rounds to nearest, ties to even, as IEEE 754 does.                      *)
(***************************************************************************)
MantBits == 53

Zeros(n) == [i \in 1..n |-> 0]

F64Zero == [mant |-> Zeros(MantBits), exp |-> 0]

\* The binary numeral of a natural number, most significant bit first.
RECURSIVE BitsOf(_)
BitsOf(n) == IF n = 0 THEN <<>> ELSE Append(BitsOf(n \div 2), n % 2)

\* A numeral plus one, from the last bit up: acc holds the bits already
\* decided; a carry out of the top adds a leading 1.
RECURSIVE IncFrom(_, _)
IncFrom(bits, acc) ==
    IF Len(acc) = Len(bits) THEN <<1>> \o acc
    ELSE IF bits[Len(bits) - Len(acc)] = 0
         THEN SubSeq(bits, 1, Len(bits) - Len(acc) - 1) \o <<1>> \o acc
         ELSE IncFrom(bits, <<0>> \o acc)

IncBits(bits) == IncFrom(bits, <<>>)

\* A numeral with leading bit 1 and the binary exponent of its last bit,
\* rounded to MantBits bits; sticky says that non-zero bits follow the numeral.
RoundBits(bits, exp, sticky) ==
    IF Len(bits) <= MantBits
    THEN [mant |-> bits \o Zeros(MantBits - Len(bits)), exp |-> exp - (MantBits - Len(bits))]
    ELSE LET kept == SubSeq(bits, 1, MantBits)
             guard == bits[MantBits + 1]
             rest == sticky \/ \E i \in (MantBits + 2)..Len(bits) : bits[i] = 1
             up == guard = 1 /\ (rest \/ kept[MantBits] = 1)
             e == exp + (Len(bits) - MantBits)
             inc == IncBits(kept)
         IN  IF ~up THEN [mant |-> kept, exp |-> e]
             ELSE IF Len(inc) = MantBits THEN [mant |-> inc, exp |-> e]
             ELSE [mant |-> SubSeq(inc, 1, MantBits), exp |-> e + 1]

\* `n as f64` for a u32 n: exact.
IntToF64(n) == IF n = 0 THEN F64Zero ELSE RoundBits(BitsOf(n), 0, FALSE)

\* count further quotient bits of r / d by long division, appended to acc,
\* with the remainder.
RECURSIVE DivBits(_, _, _, _)
DivBits(r, d, count, acc) ==
    IF count = 0 THEN [bits |-> acc, rem |-> r]
    ELSE IF 2 * r >= d THEN DivBits(2 * r - d, d, count - 1, Append(acc, 1))
         ELSE DivBits(2 * r, d, count - 1, Append(acc, 0))

\* n / d scaled by a power of two into [1, 2): the scaled pair and the power.
RECURSIVE Normalize(_, _, _)
Normalize(n, d, k) ==
    IF n < d THEN Normalize(2 * n, d, k - 1)
    ELSE IF n >= 2 * d THEN Normalize(n, 2 * d, k + 1)
    ELSE [n |-> n, d |-> d, k |-> k]

\* `n as f64 / d as f64` for u32 n and d > 0: the quotient's first
\* MantBits + 1 bits by long division, the remainder as the sticky bit.
F64Div(n, d) ==
    IF n = 0 THEN F64Zero
    ELSE LET s == Normalize(n, d, 0)
             q == DivBits(s.n - s.d, s.d, MantBits, <<1>>)
         IN  RoundBits(q.bits, s.k - MantBits, q.rem # 0)

\* A numeral times a small natural number n, from the last bit up: acc holds
\* the product bits already decided, carry what is carried into the next.
RECURSIVE MulFrom(_, _, _, _)
MulFrom(bits, n, carry, acc) ==
    IF Len(acc) = Len(bits) THEN BitsOf(carry) \o acc
    ELSE IF (bits[Len(bits) - Len(acc)] * n + carry) % 2 = 1
         THEN MulFrom(bits, n, (bits[Len(bits) - Len(acc)] * n + carry) \div 2,
                      <<1>> \o acc)
         ELSE MulFrom(bits, n, (bits[Len(bits) - Len(acc)] * n + carry) \div 2,
                      <<0>> \o acc)

MulBits(bits, n) == MulFrom(bits, n, 0, <<>>)

\* `x * (n as f64)` for a u32 n.
F64MulInt(x, n) ==
    IF x = F64Zero \/ n = 0 THEN F64Zero
    ELSE RoundBits(MulBits(x.mant, n), x.exp, FALSE)

F64One == IntToF64(1)

\* A slip: the quotient is taken in integers and then converted.
avg_doc_length_truncating(length, total_docs) ==
    IF total_docs > 0 THEN IntToF64(length \div total_docs) ELSE F64One

\* avg_doc_length: total_length as f64 / total_docs as f64, and 1.0 for an
\* empty corpus.
avg_doc_length(length, total_docs) ==
    IF total_docs > 0 THEN F64Div(length, total_docs) ELSE F64One

\* *doc_frequencies.entry(term).or_default() += 1 for every key of one entry.
add_doc(df, entry) ==
    LET keys == DOMAIN entry.term_frequencies
    IN  [t \in DOMAIN df \cup keys |->
            (IF t \in DOMAIN df THEN df[t] ELSE 0) + (IF t \in keys THEN 1 ELSE 0)]

\* A slip: the counter is raised by the term's body count, not by one.
RECURSIVE doc_frequencies_by_count(_)
doc_frequencies_by_count(entries) ==
    IF entries = <<>> THEN <<>>
    ELSE LET df == doc_frequencies_by_count(Tail(entries))
             tf == Head(entries).term_frequencies
         IN  [t \in DOMAIN df \cup DOMAIN tf |->
                 (IF t \in DOMAIN df THEN df[t] ELSE 0)
                 + (IF t \in DOMAIN tf THEN tf[t].body ELSE 0)]

\* The document-frequency loop over a sequence of FileEntry.
RECURSIVE doc_frequencies(_)
doc_frequencies(entries) ==
    IF entries = <<>> THEN <<>>
    ELSE add_doc(doc_frequencies(Tail(entries)), Head(entries))

\* entries.into_iter().collect() into a HashMap: a later pair replaces an
\* earlier one with the same path.
file_map(pairs) ==
    [p \in {pairs[i].path : i \in 1..Len(pairs)} |->
        pairs[CHOOSE i \in 1..Len(pairs) :
                 /\ pairs[i].path = p
                 /\ \A j \in (i + 1)..Len(pairs) : pairs[j].path # p].entry]

EntriesOf(pairs) == [i \in 1..Len(pairs) |-> pairs[i].entry]

\* The serial phase of build: the corpus statistics and the DeepIndex, from
\* the collected (path, entry) pairs.
fold_index(pairs) ==
    LET total_docs == Len(pairs)
    IN  [version |-> CurrentVersion,
         files |-> file_map(pairs),
         avg_doc_length |-> avg_doc_length(total_length(EntriesOf(pairs)), total_docs),
         total_docs |-> total_docs,
         doc_frequencies |-> doc_frequencies(EntriesOf(pairs))]

\* IndexBuilder::build
build(infos, tree) == fold_index(build_entries(infos, tree))

(***************************************************************************)
(* atlas-index: store (merge_incremental, save, load)                      *)
(***************************************************************************)
\* merge_incremental that always takes the fresh entry.
merged_files_fresh(existing, fresh) == fresh.files

\* merge_incremental that starts from the existing entries and lays the
\* fresh ones over them.
merged_files_overlay(existing, fresh) ==
    [p \in DOMAIN existing.files \cup DOMAIN fresh.files |->
        IF p \in DOMAIN fresh.files
           /\ ~(p \in DOMAIN existing.files
                /\ existing.files[p].sha256 = fresh.files[p].sha256)
        THEN fresh.files[p]
        ELSE existing.files[p]]

\* The first loop of merge_incremental: for every path of fresh, the existing
\* entry when its sha256 is the fresh one's, the fresh entry otherwise.
merged_files(existing, fresh) ==
    [p \in DOMAIN fresh.files |->
        IF p \in DOMAIN existing.files
           /\ existing.files[p].sha256 = fresh.files[p].sha256
        THEN existing.files[p]
        ELSE fresh.files[p]]

\* HashMap::values(): the values in some order.
RECURSIVE values_of(_, _)
values_of(m, keys) ==
    IF keys = {} THEN <<>>
    ELSE LET k == CHOOSE k \in keys : TRUE
         IN  <<m[k]>> \o values_of(m, keys \ {k})

values(m) == values_of(m, DOMAIN m)

merge_incremental(existing, fresh) ==
    LET merged == merged_files(existing, fresh)
        total_docs == Cardinality(DOMAIN merged)
    IN  [version |-> fresh.version,
         files |-> merged,
         avg_doc_length |-> avg_doc_length(total_length(values(merged)), total_docs),
         total_docs |-> total_docs,
         doc_frequencies |-> doc_frequencies(values(merged))]

chunk_kind_to_str(kind) ==
    CASE kind = "Function" -> "function"
      [] kind = "Type" -> "type"
      [] kind = "Impl" -> "impl"
      [] kind = "Import" -> "import"
      [] kind = "Other" -> "other"

\* str_to_chunk_kind with the "impl" arm missing.
str_to_chunk_kind_no_impl(s) ==
    CASE s = "function" -> "Function"
      [] s = "type" -> "Type"
      [] s = "import" -> "Import"
      [] OTHER -> "Other"

str_to_chunk_kind(s) ==
    CASE s = "function" -> "Function"
      [] s = "type" -> "Type"
      [] s = "impl" -> "Impl"
      [] s = "import" -> "Import"
      [] OTHER -> "Other"

\* DeepIndex -> StoredIndex
to_stored(index) ==
    [version |-> index.version,
     total_docs |-> index.total_docs,
     avg_doc_length |-> index.avg_doc_length,
     doc_frequencies |-> index.doc_frequencies,
     files |->
        [p \in DOMAIN index.files |->
            LET entry == index.files[p]
            IN  [sha256 |-> entry.sha256,
                 doc_length |-> entry.doc_length,
                 term_frequencies |->
                     [t \in DOMAIN entry.term_frequencies |->
                         [filename |-> entry.term_frequencies[t].filename,
                          symbols |-> entry.term_frequencies[t].symbols,
                          body |-> entry.term_frequencies[t].body]],
                 chunks |->
                     [i \in 1..Len(entry.chunks) |->
                         [kind |-> chunk_kind_to_str(entry.chunks[i].kind),
                          name |-> entry.chunks[i].name,
                          start_line |-> entry.chunks[i].start_line,
                          end_line |-> entry.chunks[i].end_line,
                          content |-> entry.chunks[i].content]]]]]

ZeroSha == [i \in 1..ShaLen |-> 0]

\* StoredIndex -> DeepIndex
from_stored(stored) ==
    [version |-> stored.version,
     total_docs |-> stored.total_docs,
     avg_doc_length |-> stored.avg_doc_length,
     doc_frequencies |-> stored.doc_frequencies,
     files |->
        [p \in DOMAIN stored.files |->
            LET entry == stored.files[p]
            IN  [sha256 |-> IF Len(entry.sha256) = ShaLen THEN entry.sha256 ELSE ZeroSha,
                 doc_length |-> entry.doc_length,
                 term_frequencies |->
                     [t \in DOMAIN entry.term_frequencies |->
                         [filename |-> entry.term_frequencies[t].filename,
                          symbols |-> entry.term_frequencies[t].symbols,
                          body |-> entry.term_frequencies[t].body]],
                 chunks |->
                     [i \in 1..Len(entry.chunks) |->
                         [kind |-> str_to_chunk_kind(entry.chunks[i].kind),
                          name |-> entry.chunks[i].name,
                          start_line |-> entry.chunks[i].start_line,
                          end_line |-> entry.chunks[i].end_line,
                          content |-> entry.chunks[i].content]]]]]

\* serde_json::to_vec of a StoredChunk: content is skipped when it is empty.
chunk_to_json(c) ==
    IF c.content = ""
    THEN [kind |-> c.kind, name |-> c.name, start_line |-> c.start_line,
          end_line |-> c.end_line]
    ELSE c

\* serde_json::from_slice of a StoredChunk: a missing content is the default.
chunk_from_json(j) ==
    [kind |-> j.kind, name |-> j.name, start_line |-> j.start_line,
     end_line |-> j.end_line,
     content |-> IF "content" \in DOMAIN j THEN j.content ELSE ""]

\* serde_json::to_vec(&stored): the JSON document of a StoredIndex.
to_json(stored) ==
    [stored EXCEPT !.files =
        [p \in DOMAIN stored.files |->
            [stored.files[p] EXCEPT !.chunks =
                [i \in 1..Len(stored.files[p].chunks) |->
                    chunk_to_json(stored.files[p].chunks[i])]]]]

\* serde_json::from_slice on a document that deserializes.
from_json(doc) ==
    [doc EXCEPT !.files =
        [p \in DOMAIN doc.files |->
            [doc.files[p] EXCEPT !.chunks =
                [i \in 1..Len(doc.files[p].chunks) |->
                    chunk_from_json(doc.files[p].chunks[i])]]]]

\* The index file: absent, bytes that are no StoredIndex document, or a document.
NoIndexFile == [exists |-> FALSE, valid |-> FALSE, doc |-> <<>>]

GarbageFile == [exists |-> TRUE, valid |-> FALSE, doc |-> <<>>]

JsonFile(doc) == [exists |-> TRUE, valid |-> TRUE, doc |-> doc]

\* anyhow::Result<Option<DeepIndex>>
Ok(v) == [ok |-> TRUE, value |-> v]

Err == [ok |-> FALSE, value |-> None]

\* save: the file written by fs::write.
save(index) == JsonFile(to_json(to_stored(index)))

\* load
load(file) ==
    IF ~file.exists THEN Ok(None)
    ELSE IF ~file.valid THEN Err
         ELSE Ok(Some(from_stored(from_json(file.doc))))

(***************************************************************************)
(* atlas-cli: the index command, and what else touches the files           *)
(***************************************************************************)
NoRun ==
    [cmd |-> "none", deep |-> FALSE, force |-> FALSE, loaded |-> FALSE,
     seen |-> NoIndexFile, existing |-> None, fresh |-> None,
     final_index |-> None, outcome |-> "none"]

\* A FileEntry as another build of the tool wrote it for the same bytes: the
\* same sha256, other chunks and terms.
legacy_entry(info) ==
    LET filename_tokens == tokenize_path(info.path)
    IN  [sha256 |-> info.sha256,
         chunks |-> <<Chunk("Other", "old", 1, "old text")>>,
         term_frequencies |->
             [t \in Range(filename_tokens) \cup {"old"} |->
                 TermFreqs(filename_tokens, <<>>, <<"old">>, t)],
         doc_length |-> 1]

\* The index that build wrote for the working tree, every file included.
legacy_index(infos, version) ==
    LET pairs == [i \in 1..Len(infos) |->
                     [path |-> infos[i].path, entry |-> legacy_entry(infos[i])]]
    IN  [version |-> version,
         files |-> file_map(pairs),
         avg_doc_length |-> avg_doc_length(total_length(EntriesOf(pairs)), Len(pairs)),
         total_docs |-> Len(pairs),
         doc_frequencies |-> doc_frequencies(EntriesOf(pairs))]

\* The user (or a tool) writes a file of the repository.
WriteFile(p, bytes) ==
    /\ repo[p] # bytes
    /\ repo' = [repo EXCEPT ![p] = bytes]
    /\ run' = NoRun
    /\ UNCHANGED disk

\* The user deletes a file of the repository.
DeleteFile(p) ==
    /\ repo[p] # NoFile
    /\ repo' = [repo EXCEPT ![p] = NoFile]
    /\ run' = NoRun
    /\ UNCHANGED disk

\* The index file is damaged: its bytes are no JSON document of a StoredIndex.
CorruptIndexFile ==
    /\ disk # GarbageFile
    /\ disk' = GarbageFile
    /\ run' = NoRun
    /\ UNCHANGED repo

\* The index file was left by another build of the tool, with format version v.
LegacyIndexFile(v) ==
    /\ disk' = save(legacy_index(scan(repo), v))
    /\ disk' # disk
    /\ run' = NoRun
    /\ UNCHANGED repo

\* commands::index::run(cli, deep, force), from the scan to the save.
RunIndex(deep, force) ==
    LET bundle_files == scan(repo)
        loaded == deep /\ ~force
        existing == IF force THEN Ok(None) ELSE load(disk)
        fresh_index == build(bundle_files, repo)
        final_index == IF existing.value # None
                       THEN merge_incremental(existing.value[1], fresh_index)
                       ELSE fresh_index
    IN  IF ~deep
        THEN /\ run' = [NoRun EXCEPT !.cmd = "index", !.outcome = "ok"]
             /\ UNCHANGED <<repo, disk>>
        ELSE IF ~existing.ok
        THEN \* atlas_index::load(&root)? returns the error
             /\ run' = [NoRun EXCEPT !.cmd = "index", !.deep = TRUE, !.loaded = TRUE,
                                     !.seen = disk, !.outcome = "err"]
             /\ UNCHANGED <<repo, disk>>
        ELSE /\ disk' = save(final_index)
             /\ run' = [cmd |-> "index", deep |-> TRUE, force |-> force,
                        loaded |-> loaded,
                        seen |-> IF loaded THEN disk ELSE NoIndexFile,
                        existing |-> existing.value,
                        fresh |-> Some(fresh_index),
                        final_index |-> Some(final_index),
                        outcome |-> "ok"]
             /\ UNCHANGED repo

(***************************************************************************)
(* The index file as calls that run side by side see it: fs::write creates *)
(* (truncates) the file and write_all then writes the JSON text piece by   *)
(* piece; every document takes Pieces writes of one size.                  *)
(***************************************************************************)
MaxCalls == 2

Pieces == 2

\* The bytes of a JSON document, cut where the writes end.
json_pieces(doc) == [k \in 1..Pieces |-> [doc |-> doc, part |-> k]]

\* Zero bytes: what a write past the end of the file leaves before it.
Hole == [doc |-> <<>>, part |-> 0]

NoBytes == [exists |-> FALSE, bytes |-> <<>>]

\* File::create: the file exists and is empty.
create(f) == [exists |-> TRUE, bytes |-> <<>>]

\* One write of write_all at the writer's own offset k - 1.
write_at(f, k, piece) ==
    [exists |-> TRUE,
     bytes |-> [i \in 1..(IF Len(f.bytes) > k THEN Len(f.bytes) ELSE k) |->
                   IF i = k THEN piece
                   ELSE IF i <= Len(f.bytes) THEN f.bytes[i] ELSE Hole]]

\* The bytes are the whole text of one document.
IsWhole(bytes) ==
    /\ Len(bytes) = Pieces
    /\ \A k \in 1..Pieces : bytes[k] = [doc |-> bytes[1].doc, part |-> k]

\* fs::read of the file as it is now, as load deserializes it.
as_file(f) ==
    IF ~f.exists THEN NoIndexFile
    ELSE IF IsWhole(f.bytes) THEN JsonFile(f.bytes[1].doc)
    ELSE GarbageFile

(***************************************************************************)
(* Each specification moves its own variables; the others rest at these    *)
(* values.                                                                 *)
(***************************************************************************)
BudgetIdle ==
    /\ files = <<>>
    /\ budget = [max_bytes |-> None, max_tokens |-> None]
    /\ result = <<>>
    /\ bpc = "input"

IndexIdle ==
    /\ repo = [p \in Paths |-> NoFile]
    /\ disk = NoIndexFile
    /\ run = NoRun

\* The corpus statistics before they are computed.
NoStats == [done |-> FALSE, total_docs |-> 0, avg_doc_length |-> F64Zero]

StatsIdle ==
    /\ corpus = <<>>
    /\ stats = NoStats

CallsIdle ==
    /\ calls = <<>>
    /\ index_file = NoBytes

NoPar == [tree |-> <<>>, infos |-> <<>>, slots |-> <<>>, index |-> None]

NoGraph == [all_paths |-> <<>>, graph |-> <<>>]

NoResolve == [all_paths |-> <<>>, import_path |-> <<>>, resolved |-> <<>>, done |-> FALSE]

\* The specifications after SpecCalls at rest.
NoRole == [path |-> <<>>, role |-> "none", done |-> FALSE]

NoScan == [tree |-> {}, ignored |-> {}, stack |-> <<>>, files |-> <<>>, scans |-> <<>>]

NoRank ==
    [graph |-> [nodes |-> <<>>, edges |-> <<>>], incoming |-> <<>>, old |-> <<>>,
     scores |-> <<>>, max_diff |-> <<>>, rounds |-> 0, result |-> <<>>, pc |-> "idle"]

NoChunker == [content |-> <<>>, language |-> "none", chunks |-> <<>>, done |-> FALSE]

NoTokens == [name |-> <<>>, tokens |-> <<>>, done |-> FALSE]

NoImports == [content |-> <<>>, imports |-> <<>>, done |-> FALSE]

NoInit == [file |-> <<>>, before |-> <<>>, log |-> <<>>]

NoServer == [repo |-> <<>>, disk |-> <<>>, scan |-> {}, indexed |-> FALSE]

NoQuery == [scored |-> <<>>, params |-> <<>>, files |-> <<>>, done |-> FALSE]

NoQuick == [preset |-> "none", disk |-> <<>>, log |-> <<>>, pc |-> "idle"]

NoImportGraph == [graph |-> <<>>, mentioned |-> {}, add_edge_calls |-> 0, calls |-> 0]

TailIdle ==
    /\ ch = NoChunker
    /\ tk = NoTokens
    /\ gi = NoImports
    /\ ini = NoInit
    /\ mi = NoServer
    /\ qy = NoQuery
    /\ qk = NoQuick
    /\ gr = NoImportGraph

LaterIdle ==
    /\ TailIdle
    /\ par = NoPar
    /\ ig = NoGraph
    /\ go = NoResolve
    /\ fr = NoRole
    /\ sc = NoScan
    /\ pr = NoRank

XIdle == CallsIdle /\ LaterIdle

\* Everything up to SpecRank is idle.
RankIdle ==
    /\ BudgetIdle
    /\ IndexIdle
    /\ StatsIdle
    /\ CallsIdle
    /\ par = NoPar
    /\ ig = NoGraph
    /\ go = NoResolve
    /\ fr = NoRole
    /\ sc = NoScan
    /\ pr = NoRank

(***************************************************************************)
(* The corpus statistics of build and merge_incremental, on their own      *)
(***************************************************************************)
MaxCorpus == 7

\* The doc_length of the entries above: legacy_entry, TextAuth, TextDb.
DocLengths == {1, 2, 6}

Corpora == UNION {[1..n -> [doc_length : DocLengths]] : n \in 0..MaxCorpus}

\* total_docs, total_length and avg_doc_length as build computes them from
\* the collected entries (merge_incremental repeats the same lines).
corpus_stats(entries) ==
    [done |-> TRUE,
     total_docs |-> Len(entries),
     avg_doc_length |-> avg_doc_length(total_length(entries), Len(entries))]

InitStats ==
    /\ corpus \in Corpora
    /\ stats = NoStats
    /\ repo = [p \in Paths |-> NoFile]
    /\ disk = NoIndexFile
    /\ run = NoRun
    /\ files = <<>>
    /\ budget = [max_bytes |-> None, max_tokens |-> None]
    /\ result = <<>>
    /\ bpc = "input"
    /\ XIdle

CorpusStats ==
    /\ ~stats.done
    /\ stats' = corpus_stats(corpus)
    /\ UNCHANGED <<corpus, bvars, ivars, xvars>>

NextStats == CorpusStats

SpecStats == InitStats /\ [][NextStats]_vars

Init ==
    /\ repo = [p \in Paths |-> NoFile]
    /\ disk = NoIndexFile
    /\ run = NoRun
    /\ files = <<>>
    /\ budget = [max_bytes |-> None, max_tokens |-> None]
    /\ result = <<>>
    /\ bpc = "input"
    /\ corpus = <<>>
    /\ stats = NoStats
    /\ XIdle

Next ==
    \/ \E p \in Paths, bytes \in FileBytes : WriteFile(p, bytes) /\ UNCHANGED <<bvars, svars, xvars>>
    \/ \E p \in Paths : DeleteFile(p) /\ UNCHANGED <<bvars, svars, xvars>>
    \/ CorruptIndexFile /\ UNCHANGED <<bvars, svars, xvars>>
    \/ \E v \in {0, CurrentVersion} : LegacyIndexFile(v) /\ UNCHANGED <<bvars, svars, xvars>>
    \/ \E deep \in BOOLEAN, force \in BOOLEAN : RunIndex(deep, force) /\ UNCHANGED <<bvars, svars, xvars>>

Spec == Init /\ [][Next]_vars

(***************************************************************************)
(* atlas-core: TokenBudget                                                 *)
(***************************************************************************)
MaxLen == 3

MaxTokens == 2

MaxBytesCap == 12

MaxTokensCap == 3

\* ScoredFile, reduced to the fields enforce reads or that identify the file:
\* path is the file's rank in the score-sorted list.
ScoredFile(i, t) == [path |-> i, tokens |-> t]

MkFiles(ts) == [i \in 1..Len(ts) |-> ScoredFile(i, ts[i])]

TokenSeqs == UNION {[1..n -> 0..MaxTokens] : n \in 0..MaxLen}

\* The literal scenario S6 of the specification.
S6Tokens == <<1000, 400, 200, 50>>

FileLists == {MkFiles(ts) : ts \in TokenSeqs \cup {S6Tokens}}

ByteCaps == {None} \cup {Some(c) : c \in 0..MaxBytesCap} \cup {Some(2000), Some(6000)}

TokenCaps == {None} \cup {Some(c) : c \in 0..MaxTokensCap}

TokenBudget == [max_bytes : ByteCaps, max_tokens : TokenCaps]

\* A skip-and-continue variant: a file that does not fit is passed over.
RECURSIVE enforce_skipping(_, _, _, _, _, _)
enforce_skipping(self, fs, i, total_bytes, total_tokens, res) ==
    IF i > Len(fs) THEN res
    ELSE LET file_bytes == fs[i].tokens * 4
             file_tokens == fs[i].tokens
         IN  IF /\ res # <<>>
                /\ \/ self.max_bytes # None /\ total_bytes + file_bytes > self.max_bytes[1]
                   \/ self.max_tokens # None /\ total_tokens + file_tokens > self.max_tokens[1]
             THEN enforce_skipping(self, fs, i + 1, total_bytes, total_tokens, res)
             ELSE enforce_skipping(self, fs, i + 1, total_bytes + file_bytes,
                                   total_tokens + file_tokens, Append(res, fs[i]))

\* A variant without the non-empty guarantee: the caps apply to the first file too.
RECURSIVE enforce_strict(_, _, _, _, _, _)
enforce_strict(self, fs, i, total_bytes, total_tokens, res) ==
    IF i > Len(fs) THEN res
    ELSE LET file_bytes == fs[i].tokens * 4
             file_tokens == fs[i].tokens
         IN  IF \/ self.max_bytes # None /\ total_bytes + file_bytes > self.max_bytes[1]
                \/ self.max_tokens # None /\ total_tokens + file_tokens > self.max_tokens[1]
             THEN res
             ELSE enforce_strict(self, fs, i + 1, total_bytes + file_bytes,
                                 total_tokens + file_tokens, Append(res, fs[i]))

\* A variant that breaks on the byte cap only while the running total is still
\* within it: once a first file has overshot the cap, nothing stops the walk.
RECURSIVE enforce_lax(_, _, _, _, _, _)
enforce_lax(self, fs, i, total_bytes, total_tokens, res) ==
    IF i > Len(fs) THEN res
    ELSE LET file_bytes == fs[i].tokens * 4
             file_tokens == fs[i].tokens
         IN  IF /\ self.max_bytes # None
                /\ total_bytes + file_bytes > self.max_bytes[1]
                /\ total_bytes <= self.max_bytes[1]
                /\ res # <<>>
             THEN res
             ELSE IF /\ self.max_tokens # None
                     /\ total_tokens + file_tokens > self.max_tokens[1]
                     /\ res # <<>>
                  THEN res
                  ELSE enforce_lax(self, fs, i + 1, total_bytes + file_bytes,
                                   total_tokens + file_tokens, Append(res, fs[i]))

\* The body of the for loop of enforce from file i on: a break returns the
\* result so far, otherwise the file is pushed and the loop goes on.
RECURSIVE enforce_loop(_, _, _, _, _, _)
enforce_loop(self, fs, i, total_bytes, total_tokens, res) ==
    IF i > Len(fs) THEN res
    ELSE LET file_bytes == fs[i].tokens * 4
             file_tokens == fs[i].tokens
         IN  IF /\ self.max_bytes # None
                /\ total_bytes + file_bytes > self.max_bytes[1]
                /\ res # <<>>
             THEN res
             ELSE IF /\ self.max_tokens # None
                     /\ total_tokens + file_tokens > self.max_tokens[1]
                     /\ res # <<>>
                  THEN res
                  ELSE enforce_loop(self, fs, i + 1, total_bytes + file_bytes,
                                    total_tokens + file_tokens, Append(res, fs[i]))

enforce(self, fs) == enforce_loop(self, fs, 1, 0, 0, <<>>)

InitBudget ==
    /\ files \in FileLists
    /\ budget = [max_bytes |-> None, max_tokens |-> None]
    /\ result = <<>>
    /\ bpc = "input"
    /\ repo = [p \in Paths |-> NoFile]
    /\ disk = NoIndexFile
    /\ run = NoRun
    /\ corpus = <<>>
    /\ stats = NoStats
    /\ XIdle

\* One call budget.enforce(&files) with any budget.
Enforce ==
    /\ \E b \in TokenBudget :
          /\ budget' = b
          /\ result' = enforce(b, files)
    /\ bpc' = "done"
    /\ UNCHANGED files
    /\ UNCHANGED <<ivars, svars, xvars>>

NextBudget == Enforce

SpecBudget == InitBudget /\ [][NextBudget]_vars

(***************************************************************************)
(* Claims about TokenBudget::enforce (checked under SpecBudget)            *)
(***************************************************************************)
RECURSIVE SumTokens(_, _)
SumTokens(fs, k) == IF k = 0 THEN 0 ELSE SumTokens(fs, k - 1) + fs[k].tokens

\* Adding file k to the files before it would exceed a cap of b.
Exceeds(b, fs, k) ==
    \/ b.max_bytes # None /\ 4 * SumTokens(fs, k) > b.max_bytes[1]
    \/ b.max_tokens # None /\ SumTokens(fs, k) > b.max_tokens[1]

S6Budget == [max_bytes |-> Some(6000), max_tokens |-> None]

\* C1: the result of enforce is a prefix of the input; it holds every file
\* before the first file whose addition would exceed a cap and no file after
\* it (the violating file itself is in the result only when it is the very
\* first file); tokens [1000, 400, 200, 50] with max_bytes = 6000 give
\* exactly the first two files.
C1_HaltAtFirstViolation ==
    bpc = "done" =>
        /\ IsPrefix(result, files)
        /\ \A k \in 1..Len(files) :
              /\ Exceeds(budget, files, k) => (Len(result) < k \/ (k = 1 /\ Len(result) = 1))
              /\ (\A j \in 2..k : ~Exceeds(budget, files, j)) => Len(result) >= k
        /\ (files = MkFiles(S6Tokens) /\ budget = S6Budget)
              => result = SubSeq(files, 1, 2)

\* Scenario S6 with max_bytes = 6000: the walk halts at the third file (6400
\* bytes) although the fourth (5800 bytes) would still fit.
C1_Witness ==
    /\ bpc = "done"
    /\ files = MkFiles(S6Tokens)
    /\ budget = S6Budget
    /\ Len(result) = 2
    /\ Exceeds(budget, files, 3)
    /\ 4 * (SumTokens(files, 2) + files[4].tokens) <= budget.max_bytes[1]

\* C2: for a non-empty input the result is non-empty and starts with the first
\* input file, whatever the caps (0 and caps below the first file's cost
\* included); for an empty input the result is empty.
C2_NonEmptyForNonEmpty ==
    bpc = "done" =>
        /\ files # <<>> => (result # <<>> /\ result[1] = files[1])
        /\ files = <<>> => result = <<>>

\* A first file that costs more than a cap of 0 is still returned.
C2_Witness ==
    /\ bpc = "done"
    /\ Len(files) >= 2
    /\ files[1].tokens > 0
    /\ budget.max_bytes = Some(0)
    /\ budget.max_tokens = Some(0)
    /\ result = <<files[1]>>

\* Cap c2 is absent or at least cap c1.
CapAtLeast(c1, c2) == c2 = None \/ (c1 # None /\ c2[1] >= c1[1])

BudgetAtLeast(b1, b2) ==
    /\ CapAtLeast(b1.max_bytes, b2.max_bytes)
    /\ CapAtLeast(b1.max_tokens, b2.max_tokens)

\* C3: budget monotonicity: the result under a budget is a prefix of the
\* result under every budget whose caps are each absent or at least as large.
C3_BudgetMonotone ==
    bpc = "done" =>
        \A b2 \in TokenBudget :
            BudgetAtLeast(budget, b2) => IsPrefix(result, enforce(b2, files))

\* A strictly larger budget that returns strictly more files.
C3_Witness ==
    /\ bpc = "done"
    /\ Len(result) < Len(files)
    /\ \E b2 \in TokenBudget :
          /\ BudgetAtLeast(budget, b2)
          /\ b2 # budget
          /\ Len(enforce(b2, files)) > Len(result)

(***************************************************************************)
(* Claims about the deep index (checked under Spec)                        *)
(***************************************************************************)
\* The last command was a deep index run that reached its save.
Indexed == run.cmd = "index" /\ run.deep /\ run.outcome = "ok"

\* The last command merged a loaded index with a fresh one.
Merged == Indexed /\ run.existing # None

\* The paths of the working tree that build could read.
ReadablePaths == {p \in Paths : repo[p].utf8}

\* C4: merge_incremental is keyed on SHA-256: a path of fresh whose sha256
\* equals that of existing's entry for the path gets existing's entry, every
\* other path of fresh gets fresh's entry; when every path and SHA matches,
\* the merged entries are the existing ones.
C4_MergeKeyedOnSha ==
    Merged =>
        LET existing == run.existing[1]
            fresh == run.fresh[1]
            merged == run.final_index[1]
            Same(p) == /\ p \in DOMAIN existing.files
                       /\ existing.files[p].sha256 = fresh.files[p].sha256
        IN  /\ \A p \in DOMAIN fresh.files :
                  /\ p \in DOMAIN merged.files
                  /\ Same(p) => merged.files[p] = existing.files[p]
                  /\ ~Same(p) => merged.files[p] = fresh.files[p]
            /\ (DOMAIN existing.files = DOMAIN fresh.files
                    /\ \A p \in DOMAIN fresh.files : Same(p))
                  => merged.files = existing.files

\* A merge that keeps an existing entry which differs from the fresh one of
\* the same sha256, and takes the fresh entry of a changed file.
C4_Witness ==
    /\ Merged
    /\ \E p, q \in DOMAIN run.fresh[1].files :
          /\ p \in DOMAIN run.existing[1].files
          /\ run.existing[1].files[p].sha256 = run.fresh[1].files[p].sha256
          /\ run.existing[1].files[p] # run.fresh[1].files[p]
          /\ run.final_index[1].files[p] = run.existing[1].files[p]
          /\ q \in DOMAIN run.existing[1].files
          /\ run.existing[1].files[q].sha256 # run.fresh[1].files[q].sha256
          /\ run.final_index[1].files[q] = run.fresh[1].files[q]

\* C5: deletions are dropped on rebuild: the paths of the index a deep run
\* produces (and saves) are the paths of the fresh file list that could be
\* read; a path only the existing index has is not in the result, and its
\* terms count neither in doc_frequencies nor in total_docs.
C5_DeletionsDropped ==
    Indexed =>
        LET final == run.final_index[1]
        IN  /\ DOMAIN final.files = ReadablePaths
            /\ disk.valid /\ DOMAIN disk.doc.files = ReadablePaths
            /\ final.total_docs = Cardinality(ReadablePaths)
            /\ \A t \in DOMAIN final.doc_frequencies :
                  /\ \E p \in ReadablePaths : t \in DOMAIN final.files[p].term_frequencies
                  /\ final.doc_frequencies[t] <= Cardinality(ReadablePaths)

\* An incremental run whose existing index holds a path that is no longer in
\* the tree, with a term no remaining entry has.
C5_Witness ==
    /\ Merged
    /\ \E p \in DOMAIN run.existing[1].files :
          /\ repo[p] = NoFile
          /\ p \notin DOMAIN run.final_index[1].files
          /\ \E t \in DOMAIN run.existing[1].files[p].term_frequencies :
                t \notin DOMAIN run.final_index[1].doc_frequencies
    /\ run.final_index[1].total_docs >= 1

TermsOf(index) == UNION {DOMAIN index.files[p].term_frequencies : p \in DOMAIN index.files}

PathsWith(index, t) == {p \in DOMAIN index.files : t \in DOMAIN index.files[p].term_frequencies}

DocFrequencyLaw(index) ==
    /\ DOMAIN index.doc_frequencies = TermsOf(index)
    /\ \A t \in DOMAIN index.doc_frequencies :
          /\ index.doc_frequencies[t] = Cardinality(PathsWith(index, t))
          /\ index.doc_frequencies[t] > 0

\* C6: doc-frequency law: in the index build returns and in the index
\* merge_incremental returns, doc_frequencies[t] is the number of paths whose
\* entry has term t, for every term, and no term is present with count 0.
C6_DocFrequencyLaw ==
    Indexed =>
        /\ DocFrequencyLaw(run.fresh[1])
        /\ DocFrequencyLaw(run.final_index[1])

\* A merged index in which one term is in two entries and another in one.
C6_Witness ==
    /\ Merged
    /\ \E t, u \in DOMAIN run.final_index[1].doc_frequencies :
          /\ run.final_index[1].doc_frequencies[t] = 2
          /\ run.final_index[1].doc_frequencies[u] = 1
    /\ run.final_index[1].files # run.fresh[1].files

(***************************************************************************)
(* C7 is checked under SpecStats.                                          *)
(***************************************************************************)
RECURSIVE SumDocLength(_, _)
SumDocLength(entries, k) ==
    IF k = 0 THEN 0 ELSE SumDocLength(entries, k - 1) + entries[k].doc_length

\* Binary numerals (most significant bit first) as exact natural numbers.
PadTo(bits, n) == Zeros(n - Len(bits)) \o bits

NumGeq(a, b) ==
    \/ a = b
    \/ \E i \in 1..Len(a) : a[i] = 1 /\ b[i] = 0 /\ \A j \in 1..(i - 1) : a[j] = b[j]

\* a - b for numerals of one length with a >= b, from the last bit up.
RECURSIVE NumSubFrom(_, _, _, _)
NumSubFrom(a, b, borrow, acc) ==
    IF Len(acc) = Len(a) THEN acc
    ELSE IF a[Len(a) - Len(acc)] - b[Len(a) - Len(acc)] - borrow < 0
         THEN NumSubFrom(a, b, 1,
                  <<a[Len(a) - Len(acc)] - b[Len(a) - Len(acc)] - borrow + 2>> \o acc)
         ELSE NumSubFrom(a, b, 0,
                  <<a[Len(a) - Len(acc)] - b[Len(a) - Len(acc)] - borrow>> \o acc)

NumAbsDiff(a, b) ==
    IF NumGeq(a, b) THEN NumSubFrom(a, b, 0, <<>>) ELSE NumSubFrom(b, a, 0, <<>>)

\* The numeral is at most the small number m.
NumAtMost(bits, m) ==
    \E v \in 0..m : PadTo(BitsOf(v), Len(bits)) = bits

\* x is a double nearest to sum / n: |x * n - sum| <= ulp(x) * n / 2, in exact
\* arithmetic, scaled by 2 / ulp(x). (Each numeral is bound by a quantifier
\* over a singleton, which makes TLC compute it once.)
NearestQuotient(x, sum, n) ==
    IF sum = 0 THEN x = F64Zero
    ELSE /\ x # F64Zero
         /\ x.exp <= 0
         /\ \E xn \in {MulBits(x.mant, n)} :
            \E s \in {BitsOf(sum) \o Zeros(0 - x.exp)} :
            \E len \in {IF Len(xn) > Len(s) THEN Len(xn) ELSE Len(s)} :
            \E a \in {PadTo(xn, len)}, b \in {PadTo(s, len)} :
            \E diff \in {NumAbsDiff(a, b)} :
                NumAtMost(Append(diff, 0), n)

\* C7 as stated: total_docs is the number of entries, avg_doc_length *
\* total_docs equals the sum of doc_length when total_docs > 0 (all three f64
\* values, as the index holds them), and avg_doc_length is 1.0 when
\* total_docs = 0.
C7_AvgTimesDocsIsSum ==
    stats.done =>
        /\ stats.total_docs = Len(corpus)
        /\ stats.total_docs > 0 =>
              F64MulInt(stats.avg_doc_length, stats.total_docs)
                  = IntToF64(SumDocLength(corpus, Len(corpus)))
        /\ stats.total_docs = 0 => stats.avg_doc_length = F64One

\* C7, amended: total_docs is the number of entries; when total_docs > 0,
\* avg_doc_length is the double nearest to (sum of doc_length) / total_docs,
\* so that avg_doc_length * total_docs is the sum up to that rounding only;
\* avg_doc_length is 1.0 when total_docs = 0.
C7_AvgLengthLaw ==
    stats.done =>
        /\ stats.total_docs = Len(corpus)
        /\ stats.total_docs > 0 =>
              NearestQuotient(stats.avg_doc_length,
                              SumDocLength(corpus, Len(corpus)), stats.total_docs)
        /\ stats.total_docs = 0 => stats.avg_doc_length = F64One

\* Seven entries of total length 29: the average is 29/7 rounded, and
\* multiplying it by 7 does not give 29 back.
C7_Witness ==
    /\ stats.done
    /\ stats.total_docs = 7
    /\ SumDocLength(corpus, Len(corpus)) = 29
    /\ stats.avg_doc_length = F64Div(29, 7)
    /\ F64MulInt(stats.avg_doc_length, 7) # IntToF64(29)

SameChunk(c, d) ==
    /\ c.kind = d.kind
    /\ c.name = d.name
    /\ c.start_line = d.start_line
    /\ c.end_line = d.end_line

SameEntry(e, f) ==
    /\ e.sha256 = f.sha256
    /\ e.doc_length = f.doc_length
    /\ e.term_frequencies = f.term_frequencies
    /\ Len(e.chunks) = Len(f.chunks)
    /\ \A i \in 1..Len(e.chunks) : SameChunk(e.chunks[i], f.chunks[i])

SameIndex(x, y) ==
    /\ x.version = y.version
    /\ x.total_docs = y.total_docs
    /\ x.doc_frequencies = y.doc_frequencies
    /\ DOMAIN x.files = DOMAIN y.files
    /\ \A p \in DOMAIN x.files : SameEntry(x.files[p], y.files[p])

\* C8: store round trip: load of the file that save(x) wrote returns an index
\* equal to x in version, total_docs, doc_frequencies and, path by path,
\* sha256, doc_length, term frequencies and the chunks' kind, name and lines;
\* load with no index file returns no index.
C8_StoreRoundTrip ==
    /\ Indexed =>
          /\ load(disk).ok
          /\ load(disk).value # None
          /\ SameIndex(load(disk).value[1], run.final_index[1])
    /\ (run.cmd = "index" /\ run.loaded /\ ~run.seen.exists) =>
          (run.outcome = "ok" /\ run.existing = None)

\* A saved index with an impl chunk, a chunk without content and a chunk
\* with content.
C8_Witness ==
    /\ Indexed
    /\ \E p, q \in DOMAIN run.final_index[1].files :
          /\ \E i \in 1..Len(run.final_index[1].files[p].chunks) :
                /\ run.final_index[1].files[p].chunks[i].kind = "Impl"
                /\ run.final_index[1].files[p].chunks[i].content = ""
          /\ \E i \in 1..Len(run.final_index[1].files[q].chunks) :
                run.final_index[1].files[q].chunks[i].content # ""

\* C9: a load of an index file that deserializes but whose version is below
\* the version the builder writes returns "no index present", so that the
\* caller rebuilds in full.
C9_OldVersionIsAbsent ==
    (run.cmd = "index" /\ run.loaded /\ run.seen.valid
        /\ run.seen.doc.version < CurrentVersion)
    => (run.outcome = "ok" /\ run.existing = None)

\* C10: an index file that exists but cannot be deserialized is treated as
\* "no index": load reports absence and the index command goes on to rebuild
\* and save the index.
C10_UndeserializableIsAbsent ==
    (run.cmd = "index" /\ run.loaded /\ run.seen.exists /\ ~run.seen.valid)
    => /\ run.outcome = "ok"
       /\ run.existing = None
       /\ disk = save(build(scan(repo), repo))

(***************************************************************************)
(* atlas-cli: index and query calls that run side by side (the tool server *)
(* runs each call on the blocking-task pool; nothing serializes them)      *)
(***************************************************************************)
CallIds == 1..MaxCalls

\* The working tree while the calls run.
CallTree == [p \in Paths |-> IF p = PathPool[1] THEN TextAuth ELSE TextDb]

\* The index an earlier run saved for that tree.
PrevIndex == legacy_index(scan(CallTree), CurrentVersion)

PrevBytes == [exists |-> TRUE, bytes |-> json_pieces(to_json(to_stored(PrevIndex)))]

IdleCall ==
    [kind |-> "none", deep |-> FALSE, force |-> FALSE, pc |-> "idle",
     seen |-> NoIndexFile, existing |-> Ok(None), fresh |-> None,
     final_index |-> None, offset |-> 0, left_at |-> "idle"]

\* The variables the calls leave alone.
call_frame == <<bvars, ivars, svars, LaterVars, tvars>>

\* A slip: the deep branch is taken whatever the flag says.
saves_always(deep) == TRUE

\* run: `if deep { ... }`: only a deep run loads, builds and saves.
saves(deep) == deep

\* The step after the existing index is known (or not wanted).
after_load(call) == IF call.kind = "index" THEN "build" ELSE "done"

\* commands::index::run(cli, deep, force) is called.
StartIndex(c, deep, force) ==
    /\ calls[c].pc = "idle"
    /\ calls' = [calls EXCEPT ![c] =
                    [IdleCall EXCEPT !.kind = "index", !.deep = deep,
                                     !.force = force, !.pc = "scan"]]
    /\ UNCHANGED <<index_file, call_frame>>

\* do_query is called with a preset that reads the deep index.
StartQuery(c) ==
    /\ calls[c].pc = "idle"
    /\ calls' = [calls EXCEPT ![c] = [IdleCall EXCEPT !.kind = "query", !.pc = "exists"]]
    /\ UNCHANGED <<index_file, call_frame>>

\* BundleBuilder::new(&root).build(), then the branch on deep and force.
ScanStep(c) ==
    /\ calls[c].pc = "scan"
    /\ calls' = [calls EXCEPT ![c].pc =
                    IF ~saves(calls[c].deep) THEN "done"
                    ELSE IF calls[c].force THEN "build" ELSE "exists"]
    /\ UNCHANGED <<index_file, call_frame>>

\* load: `if !path.exists() { return Ok(None) }`
ExistsStep(c) ==
    /\ calls[c].pc = "exists"
    /\ calls' = [calls EXCEPT ![c] =
                    IF index_file.exists THEN [@ EXCEPT !.pc = "read"]
                    ELSE [@ EXCEPT !.existing = Ok(None), !.pc = after_load(calls[c])]]
    /\ UNCHANGED <<index_file, call_frame>>

\* load: fs::read and serde_json::from_slice; an error ends the call.
ReadStep(c) ==
    /\ calls[c].pc = "read"
    /\ calls' = [calls EXCEPT ![c] =
                    IF load(as_file(index_file)).ok
                    THEN [@ EXCEPT !.seen = as_file(index_file),
                                   !.existing = load(as_file(index_file)),
                                   !.pc = after_load(calls[c])]
                    ELSE [@ EXCEPT !.seen = as_file(index_file), !.existing = Err,
                                   !.pc = "failed"]]
    /\ UNCHANGED <<index_file, call_frame>>

\* builder.build(&bundle.files)
BuildStep(c) ==
    /\ calls[c].pc = "build"
    /\ calls' = [calls EXCEPT ![c].fresh = Some(build(scan(CallTree), CallTree)),
                              ![c].pc = "merge"]
    /\ UNCHANGED <<index_file, call_frame>>

\* merge_incremental(&existing, &fresh_index), or the fresh index as it is.
MergeStep(c) ==
    /\ calls[c].pc = "merge"
    /\ calls' = [calls EXCEPT ![c].final_index =
                    IF calls[c].existing.value # None
                    THEN Some(merge_incremental(calls[c].existing.value[1],
                                                calls[c].fresh[1]))
                    ELSE calls[c].fresh,
                              ![c].pc = "create"]
    /\ UNCHANGED <<index_file, call_frame>>

\* save: to_stored, to_vec, and fs::write as far as File::create.
CreateStep(c) ==
    /\ calls[c].pc = "create"
    /\ index_file' = create(index_file)
    /\ calls' = [calls EXCEPT ![c].offset = 0, ![c].pc = "write"]
    /\ UNCHANGED call_frame

\* save: one write of fs::write's write_all.
WriteStep(c) ==
    /\ calls[c].pc = "write"
    /\ index_file' =
          write_at(index_file, calls[c].offset + 1,
                   json_pieces(to_json(to_stored(calls[c].final_index[1])))
                       [calls[c].offset + 1])
    /\ calls' = [calls EXCEPT ![c].offset = @ + 1,
                              ![c].pc = IF calls[c].offset + 1 = Pieces
                                        THEN "done" ELSE "write"]
    /\ UNCHANGED call_frame

\* The call is abandoned where it stands (the process is killed).
Abandon(c) ==
    /\ calls[c].pc \notin {"idle", "done", "failed", "abandoned"}
    /\ calls' = [calls EXCEPT ![c].left_at = calls[c].pc, ![c].pc = "abandoned"]
    /\ UNCHANGED <<index_file, call_frame>>

InitCalls ==
    /\ calls = [c \in CallIds |-> IdleCall]
    /\ index_file \in {NoBytes, PrevBytes}
    /\ BudgetIdle
    /\ IndexIdle
    /\ StatsIdle
    /\ LaterIdle

NextCalls ==
    \/ \E c \in CallIds, deep \in BOOLEAN, force \in BOOLEAN : StartIndex(c, deep, force)
    \/ \E c \in CallIds : StartQuery(c)
    \/ \E c \in CallIds : ScanStep(c)
    \/ \E c \in CallIds : ExistsStep(c)
    \/ \E c \in CallIds : ReadStep(c)
    \/ \E c \in CallIds : BuildStep(c)
    \/ \E c \in CallIds : MergeStep(c)
    \/ \E c \in CallIds : CreateStep(c)
    \/ \E c \in CallIds : WriteStep(c)
    \/ \E c \in CallIds : Abandon(c)

SpecCalls == InitCalls /\ [][NextCalls]_vars

(***************************************************************************)
(* C11 and C12 are checked under SpecCalls.                                *)
(***************************************************************************)
\* C11: the index file is written atomically: a load that runs side by side
\* with a save reads either the whole previous index or the whole new one,
\* never a truncated or partly written file (so it never fails on one).
C11_LoadSeesWholeIndex ==
    \A c \in CallIds :
        /\ calls[c].pc # "failed"
        /\ calls[c].seen.exists => calls[c].seen.valid

\* The writes of a save: from File::create to the last write.
Saving(c) == calls[c].pc \in {"create", "write"}

\* C12: nothing is persisted before an explicit save: a step changes the
\* index file only if it is a step of the save of a deep index call, so that
\* scan, build, merge and an abandonment before the save leave the file as
\* it was, and a call without deep never changes it.
C12_NothingPersistedBeforeSave ==
    [][index_file' # index_file =>
          \E c \in CallIds :
              /\ Saving(c)
              /\ calls[c].kind = "index"
              /\ calls[c].deep
              /\ calls'[c] # calls[c]]_vars

\* One deep call was abandoned after merge, just before its save, another
\* ran without deep to its end, and the previous index file is intact.
C12_Witness ==
    /\ \E c \in CallIds : calls[c].pc = "abandoned" /\ calls[c].left_at = "create"
    /\ \E c \in CallIds : calls[c].pc = "done" /\ calls[c].kind = "index" /\ ~calls[c].deep
    /\ index_file = PrevBytes

(***************************************************************************)
(* atlas-index: the parallel phase of IndexBuilder::build, unit by unit    *)
(***************************************************************************)
MaxParFiles == 3

ParPaths == {PathPool[i] : i \in 1..MaxParFiles}

ParTrees == [ParPaths -> FileBytes]

Perms(n) == {f \in [1..n -> 1..n] : \A i, j \in 1..n : f[i] = f[j] => i = j}

\* The FileInfo list of a tree in path order, as Scanner::scan returns it.
SortedInfos(tree) == [i \in 1..MaxParFiles |-> FileInfo(PathPool[i], tree[PathPool[i]])]

\* The closure of filter_map on one FileInfo: Some((path, entry)), or None
\* for a file read_to_string fails on. It reads info and the file, no more.
work_unit(info, tree) ==
    IF tree[info.path].utf8
    THEN Some([path |-> info.path, entry |-> build_file_entry(info, tree[info.path])])
    ELSE None

\* collect: the units' results in the order of the input list.
RECURSIVE collect(_, _)
collect(slots, i) ==
    IF i > Len(slots) THEN <<>> ELSE slots[i].value \o collect(slots, i + 1)

Todo == [done |-> FALSE, value |-> None]

InitPar ==
    /\ \E tree \in ParTrees, f \in Perms(MaxParFiles) :
          par = [tree |-> tree,
                 infos |-> [i \in 1..MaxParFiles |-> SortedInfos(tree)[f[i]]],
                 slots |-> [i \in 1..MaxParFiles |-> Todo],
                 index |-> None]
    /\ BudgetIdle
    /\ IndexIdle
    /\ StatsIdle
    /\ CallsIdle
    /\ TailIdle
    /\ ig = NoGraph
    /\ go = NoResolve
    /\ fr = NoRole
    /\ sc = NoScan
    /\ pr = NoRank

\* One work unit runs, whenever the pool gets to it.
WorkUnit(i) ==
    /\ ~par.slots[i].done
    /\ par' = [par EXCEPT !.slots[i] =
                  [done |-> TRUE, value |-> work_unit(par.infos[i], par.tree)]]
    /\ UNCHANGED <<bvars, ivars, svars, cvars, ig, go, fr, sc, pr, tvars>>

\* All units are done: the results are collected and folded serially.
FoldIndex ==
    /\ \A i \in 1..MaxParFiles : par.slots[i].done
    /\ par.index = None
    /\ par' = [par EXCEPT !.index = Some(fold_index(collect(par.slots, 1)))]
    /\ UNCHANGED <<bvars, ivars, svars, cvars, ig, go, fr, sc, pr, tvars>>

NextPar ==
    \/ \E i \in 1..MaxParFiles : WorkUnit(i)
    \/ FoldIndex

SpecPar == InitPar /\ [][NextPar]_vars

\* C13: the parallel phase of build is order-independent: whatever the order
\* of the FileInfo list (distinct paths) and whatever the order the work units
\* run in, every unit's result is that of its own file, and the DeepIndex has
\* the file entries and the corpus statistics of the build of the sorted list.
C13_BuildOrderIndependent ==
    /\ \A i \in 1..Len(par.slots) :
          par.slots[i].done => par.slots[i].value = work_unit(par.infos[i], par.tree)
    /\ par.index # None =>
          /\ par.index[1] = build(par.infos, par.tree)
          /\ par.index[1] = build(SortedInfos(par.tree), par.tree)

\* A build of a list that is not in path order, with files of different
\* lengths and one file that is skipped.
C13_Witness ==
    /\ par.index # None
    /\ par.infos # SortedInfos(par.tree)
    /\ par.index[1].total_docs = MaxParFiles - 1
    /\ \E p, q \in DOMAIN par.index[1].files :
          par.index[1].files[p].doc_length # par.index[1].files[q].doc_length

(***************************************************************************)
(* atlas-score: import resolution and the import graph. A path is its      *)
(* directory components, the stem of its file name and its extension.      *)
(***************************************************************************)
Path(dirs, stem, ext) == [dirs |-> dirs, stem |-> stem, ext |-> ext]

\* The repository files the graph is built over, in the order of all_paths.
RepoPool ==
    << Path(<<"api", "core", "v1">>, "types", "go"),
       Path(<<"api", "apps", "v1">>, "deploy", "go"),
       Path(<<"testdata">>, "v1", "yaml"),
       Path(<<"vendor", "lib", "v1">>, "strings", "go"),
       Path(<<"src">>, "auth", "rs"),
       Path(<<"src", "third_party", "auth">>, "mod", "rs"),
       Path(<<"cmd">>, "main", "go"),
       Path(<<>>, "auth", "go") >>

MaxRepoPaths == 7

MaxEdges == 2

RepoPaths == {RepoPool[i] : i \in 1..MaxRepoPaths}

\* str::to_lowercase on the names that occur.
to_lowercase(name) ==
    CASE name = "Core" -> "core"
      [] name = "Auth" -> "auth"
      [] OTHER -> name

VENDORED_DIRS == {"vendor", "node_modules", "third_party"}

\* p.parent().and_then(|d| d.file_name())
parent_name(p) == IF p.dirs = <<>> THEN None ELSE Some(p.dirs[Len(p.dirs)])

\* p.parent().and_then(|d| d.parent()).and_then(|gp| gp.file_name())
grandparent_name(p) ==
    IF Len(p.dirs) < 2 THEN None ELSE Some(p.dirs[Len(p.dirs) - 1])

\* What one path pushes onto the stem index under key k.
stem_hits(p, k) ==
    (IF to_lowercase(p.stem) = k THEN <<p>> ELSE <<>>)
    \o (IF /\ p.stem \in {"mod", "index", "__init__"}
           /\ parent_name(p) # None
           /\ to_lowercase(parent_name(p)[1]) = k
        THEN <<p>> ELSE <<>>)

\* What one path pushes onto the directory index under key k.
dir_hits(p, k) ==
    IF parent_name(p) # None /\ to_lowercase(parent_name(p)[1]) = k
    THEN <<p>> ELSE <<>>

RECURSIVE stem_list(_, _, _)
stem_list(paths, k, i) ==
    IF i > Len(paths) THEN <<>> ELSE stem_hits(paths[i], k) \o stem_list(paths, k, i + 1)

RECURSIVE dir_list(_, _, _)
dir_list(paths, k, i) ==
    IF i > Len(paths) THEN <<>> ELSE dir_hits(paths[i], k) \o dir_list(paths, k, i + 1)

\* The keys the paths can be indexed under.
KeysOf(paths) ==
    UNION {{to_lowercase(paths[i].stem)} \cup
           {to_lowercase(paths[i].dirs[j]) : j \in 1..Len(paths[i].dirs)} :
              i \in 1..Len(paths)}

\* build_file_index: RepoIndex { stem, dir }, each a map from a lowercased
\* name to the paths pushed under it, in the order of paths.
build_file_index(paths) ==
    [stem |-> [k \in {k \in KeysOf(paths) : stem_list(paths, k, 1) # <<>>} |->
                  stem_list(paths, k, 1)],
     dir |-> [k \in {k \in KeysOf(paths) : dir_list(paths, k, 1) # <<>>} |->
                  dir_list(paths, k, 1)]]

\* map.get(key).cloned().unwrap_or_default()
get_or_default(map, key) == IF key \in DOMAIN map THEN map[key] ELSE <<>>

\* iter().filter(pred).collect() on a sequence.
RECURSIVE filter_seq(_, _, _)
filter_seq(seq, Keep(_), i) ==
    IF i > Len(seq) THEN <<>>
    ELSE (IF Keep(seq[i]) THEN <<seq[i]>> ELSE <<>>) \o filter_seq(seq, Keep, i + 1)

\* resolve_rust: the module name against the file stems. (A raw import is
\* the sequence of its '/'-separated segments; no stem holds a '/'.)
resolve_rust(module, file_index) ==
    IF Len(module) = 1 THEN get_or_default(file_index, to_lowercase(module[1]))
    ELSE <<>>

\* A slip: the stem index is asked first.
resolve_go_stem_first(import_path, index) ==
    LET last_lower == to_lowercase(import_path[Len(import_path)])
    IN  IF get_or_default(index.stem, last_lower) # <<>>
        THEN get_or_default(index.stem, last_lower)
        ELSE get_or_default(index.dir, last_lower)

\* resolve_go: rsplitn(3, '/') gives the last and the penultimate segment.
resolve_go(import_path, index) ==
    LET last == import_path[Len(import_path)]
        last_lower == to_lowercase(last)
        dir_candidates == get_or_default(index.dir, last_lower)
        GrandparentIs(path) ==
            /\ grandparent_name(path) # None
            /\ to_lowercase(grandparent_name(path)[1])
                   = to_lowercase(import_path[Len(import_path) - 1])
        narrowed == filter_seq(dir_candidates, GrandparentIs, 1)
    IN  IF last = "" THEN <<>>
        ELSE IF dir_candidates # <<>>
        THEN IF Len(import_path) >= 2 /\ narrowed # <<>> THEN narrowed
             ELSE dir_candidates
        ELSE get_or_default(index.stem, last_lower)

\* The languages whose resolver is modelled; Markdown stands for the
\* languages of the `_` arm.
Languages == {"Rust", "Go", "Markdown"}

\* resolve_import: the match on the language.
candidates_of(raw_import, language, file_index) ==
    CASE language = "Rust" -> resolve_rust(raw_import, file_index.stem)
      [] language = "Go" -> resolve_go(raw_import, file_index)
      [] OTHER -> <<>>

\* resolve_import: candidates.into_iter().filter(|c| c != importing_file)
filter_self(candidates, importing_file) ==
    LET NotSelf(c) == c # importing_file
    IN  filter_seq(candidates, NotSelf, 1)

resolve_import(raw_import, importing_file, language, file_index) ==
    filter_self(candidates_of(raw_import, language, file_index), importing_file)

\* A slip: only the first component is looked at.
is_vendored_top(path) == path.dirs # <<>> /\ path.dirs[1] \in VENDORED_DIRS

\* is_vendored: some component of the path, the file name included, is one
\* of VENDORED_DIRS.
is_vendored(path) ==
    \/ \E i \in 1..Len(path.dirs) : path.dirs[i] \in VENDORED_DIRS
    \/ (path.ext = "" /\ path.stem \in VENDORED_DIRS)

\* ImportGraph::new, add_node, add_edge
new_graph == [nodes |-> <<>>, edges |-> <<>>]

add_node_unchecked(g, path) ==
    [nodes |-> Append(g.nodes, path),
     edges |-> [q \in DOMAIN g.edges \cup {path} |->
                   IF q = path THEN <<>> ELSE g.edges[q]]]

add_node(g, path) ==
    IF path \in DOMAIN g.edges THEN g
    ELSE [nodes |-> Append(g.nodes, path),
          edges |-> [q \in DOMAIN g.edges \cup {path} |->
                        IF q = path THEN <<>> ELSE g.edges[q]]]

add_edge(g, from, to) ==
    [add_node(add_node(g, from), to) EXCEPT
        !.edges[from] = Append(add_node(add_node(g, from), to).edges[from], to)]

RECURSIVE add_nodes(_, _, _)
add_nodes(g, paths, i) ==
    IF i > Len(paths) THEN g ELSE add_nodes(add_node(g, paths[i]), paths, i + 1)

RECURSIVE add_edges(_, _, _, _)
add_edges(g, from, targets, i) ==
    IF i > Len(targets) THEN g
    ELSE add_edges(add_edge(g, from, targets[i]), from, targets, i + 1)

\* build_import_graph: all_paths without the vendored ones.
non_vendored(all_paths) ==
    LET Keep(p) == ~is_vendored(p)
    IN  filter_seq(all_paths, Keep, 1)

\* build_import_graph, one entry of file_imports with the resolved targets
\* of its raw import: nothing for a vendored file, else an edge per target.
import_edges(g, path, resolved) ==
    IF is_vendored(path) THEN g ELSE add_edges(g, path, resolved, 1)

EdgeCount(g) ==
    LET RECURSIVE Sum(_)
        Sum(i) == IF i > Len(g.nodes) THEN 0 ELSE Len(g.edges[g.nodes[i]]) + Sum(i + 1)
    IN  Sum(1)

\* The raw imports that occur.
RawImports ==
    { <<"k8s.io", "api", "core", "v1">>, <<"k8s.io", "api", "apps", "v1">>,
      <<"example.com", "other", "v1">>, <<"v1">>, <<"myapp", "Auth">>,
      <<"auth">>, <<"lib", "">>, <<"k8s.io", "api", "Core", "v1">> }

\* The sub-sequences of a sequence.
SubLists(seq) ==
    {filter_seq(seq, LAMBDA x : x \in keep, 1) : keep \in SUBSET Range(seq)}

\* Any part of the repository files, in their order.
AllPathLists == SubLists([i \in 1..MaxRepoPaths |-> RepoPool[i]])

\* What the resolvers of the other languages can return: they look a stem
\* up, then return the list found, a part of it, or one file of the index.
StemCandidates(file_index) ==
    UNION {SubLists(file_index.stem[k]) : k \in DOMAIN file_index.stem}

\* all_paths of the graphs built here: the repository files, one of them at
\* most left out.
GraphPathLists == {l \in AllPathLists : Len(l) + 1 >= MaxRepoPaths}

InitGraph ==
    /\ \E all_paths \in GraphPathLists :
          ig = [all_paths |-> all_paths,
                graph |-> add_nodes(new_graph, non_vendored(all_paths), 1)]
    /\ BudgetIdle
    /\ IndexIdle
    /\ StatsIdle
    /\ CallsIdle
    /\ TailIdle
    /\ par = NoPar
    /\ go = NoResolve
    /\ fr = NoRole
    /\ sc = NoScan
    /\ pr = NoRank

\* One entry (path, language, [raw]) of file_imports is resolved and added.
AddImport(path, language, raw) ==
    /\ EdgeCount(ig.graph) < MaxEdges
    /\ ig' = [ig EXCEPT !.graph =
                 import_edges(ig.graph, path,
                     resolve_import(raw, path, language,
                                    build_file_index(non_vendored(ig.all_paths))))]
    /\ UNCHANGED <<bvars, ivars, svars, cvars, par, go, fr, sc, pr, tvars>>

\* The same for a language whose resolver is not spelled out here.
AddStemImport(path) ==
    /\ EdgeCount(ig.graph) < MaxEdges
    /\ \E candidates \in StemCandidates(build_file_index(non_vendored(ig.all_paths))) :
          ig' = [ig EXCEPT !.graph =
                    import_edges(ig.graph, path, filter_self(candidates, path))]
    /\ UNCHANGED <<bvars, ivars, svars, cvars, par, go, fr, sc, pr, tvars>>

NextGraph ==
    \/ \E path \in RepoPaths, language \in Languages, raw \in RawImports :
          AddImport(path, language, raw)
    \/ \E path \in RepoPaths : AddStemImport(path)

SpecGraph == InitGraph /\ [][NextGraph]_vars

\* Some component of the path is vendor, node_modules or third_party.
HasVendoredComponent(path) ==
    \/ \E i \in 1..Len(path.dirs) :
          path.dirs[i] \in {"vendor", "node_modules", "third_party"}
    \/ (path.ext = "" /\ path.stem \in {"vendor", "node_modules", "third_party"})

\* C14: whatever file_imports and all_paths are, the graph of
\* build_import_graph has no edge from a path to itself, and no node, edge
\* source or edge target with a component vendor, node_modules or
\* third_party.
C14_NoSelfEdgeNoVendored ==
    /\ \A i \in 1..Len(ig.graph.nodes) : ~HasVendoredComponent(ig.graph.nodes[i])
    /\ \A from \in DOMAIN ig.graph.edges :
          /\ ~HasVendoredComponent(from)
          /\ \A j \in 1..Len(ig.graph.edges[from]) :
                /\ ig.graph.edges[from][j] # from
                /\ ~HasVendoredComponent(ig.graph.edges[from][j])

\* all_paths holds a file under vendor/ and one under src/third_party/, and
\* the graph has an edge to src/auth.rs, whose stem the vendored mod.rs and
\* the file itself share.
C14_Witness ==
    /\ \E i, j \in 1..Len(ig.all_paths) :
          /\ ig.all_paths[i].dirs # <<>> /\ ig.all_paths[i].dirs[1] = "vendor"
          /\ Len(ig.all_paths[j].dirs) > 1 /\ ig.all_paths[j].dirs[2] = "third_party"
    /\ \E from \in DOMAIN ig.graph.edges :
          \E j \in 1..Len(ig.graph.edges[from]) :
              ig.graph.edges[from][j] = Path(<<"src">>, "auth", "rs")

(***************************************************************************)
(* atlas-score: resolve_go on its own                                      *)
(***************************************************************************)
InitResolve ==
    /\ \E all_paths \in AllPathLists : go = [NoResolve EXCEPT !.all_paths = all_paths]
    /\ BudgetIdle
    /\ IndexIdle
    /\ StatsIdle
    /\ CallsIdle
    /\ TailIdle
    /\ par = NoPar
    /\ ig = NoGraph
    /\ fr = NoRole
    /\ sc = NoScan
    /\ pr = NoRank

\* resolve_go(import_path, &build_file_index(all_paths))
ResolveGo(import_path) ==
    /\ ~go.done
    /\ go' = [go EXCEPT !.import_path = import_path,
                        !.resolved = resolve_go(import_path, build_file_index(go.all_paths)),
                        !.done = TRUE]
    /\ UNCHANGED <<bvars, ivars, svars, cvars, par, ig, fr, sc, pr, tvars>>

NextResolve == \E import_path \in RawImports : ResolveGo(import_path)

SpecResolve == InitResolve /\ [][NextResolve]_vars

\* The files of paths whose parent directory is named name, in their order.
InDirectory(paths, name) ==
    LET Keep(p) == p.dirs # <<>> /\ to_lowercase(p.dirs[Len(p.dirs)]) = name
    IN  filter_seq(paths, Keep, 1)

\* Those of them whose grandparent directory is named name.
UnderGrandparent(paths, name) ==
    LET Keep(p) == Len(p.dirs) >= 2 /\ to_lowercase(p.dirs[Len(p.dirs) - 1]) = name
    IN  filter_seq(paths, Keep, 1)

\* The files match in more than one directory.
SeveralDirectories(paths) ==
    \E i, j \in 1..Len(paths) : paths[i].dirs # paths[j].dirs

LastSegment == to_lowercase(go.import_path[Len(go.import_path)])

Penultimate == to_lowercase(go.import_path[Len(go.import_path) - 1])

ExampleRepo == <<RepoPool[1], RepoPool[2], RepoPool[3]>>

\* The examples of C15: in the repository of api/core/v1/types.go,
\* api/apps/v1/deploy.go and testdata/v1.yaml.
GoExamples ==
    go.all_paths = ExampleRepo =>
        /\ go.import_path = <<"k8s.io", "api", "core", "v1">>
              => go.resolved = <<RepoPool[1]>>
        /\ go.import_path = <<"k8s.io", "api", "apps", "v1">>
              => go.resolved = <<RepoPool[2]>>
        /\ \A i \in 1..Len(go.resolved) : go.resolved[i] # RepoPool[3]

\* The file-stem index is consulted only if the directory lookup yields
\* nothing, and a result of the directory lookup lies in a directory named
\* by the last segment.
DirectoryFirst ==
    LET dirs == InDirectory(go.all_paths, LastSegment)
    IN  /\ dirs # <<>> => \A i \in 1..Len(go.resolved) :
                              \E j \in 1..Len(dirs) : go.resolved[i] = dirs[j]
        /\ (dirs = <<>> /\ LastSegment # "") =>
               go.resolved = get_or_default(build_file_index(go.all_paths).stem, LastSegment)

\* C15 as stated: directory first, the examples, and: when several
\* directories match and a penultimate segment exists, the result is the
\* files whose grandparent directory matches the penultimate segment.
C15_GoNarrowsToGrandparent ==
    go.done =>
        /\ DirectoryFirst
        /\ GoExamples
        /\ (SeveralDirectories(InDirectory(go.all_paths, LastSegment))
                /\ Len(go.import_path) >= 2)
            => go.resolved =
                   UnderGrandparent(InDirectory(go.all_paths, LastSegment), Penultimate)

\* C15, amended: directory first, the examples, and: when a directory
\* matches and a penultimate segment exists, the result is the files whose
\* grandparent directory matches the penultimate segment if there is such a
\* file, and every file of the matching directories if there is none (or no
\* penultimate segment).
C15_GoDirectoryBased ==
    go.done =>
        /\ DirectoryFirst
        /\ GoExamples
        /\ LET dirs == InDirectory(go.all_paths, LastSegment)
           IN  dirs # <<>> =>
                  go.resolved =
                      IF Len(go.import_path) >= 2
                         /\ UnderGrandparent(dirs, Penultimate) # <<>>
                      THEN UnderGrandparent(dirs, Penultimate)
                      ELSE dirs

\* k8s.io/api/core/v1 resolved in the example repository.
C15_Witness ==
    /\ go.done
    /\ go.all_paths = ExampleRepo
    /\ go.import_path = <<"k8s.io", "api", "core", "v1">>
    /\ go.resolved = <<RepoPool[1]>>

(***************************************************************************)
(* atlas-core: Language and FileRole::from_path. A path is its directory   *)
(* components, its file name and the extension Path::extension gives.      *)
(***************************************************************************)
RolePath(dirs, name, ext) == [dirs |-> dirs, name |-> name, ext |-> ext]

\* File names with their extension ("" where Path::extension is None).
FileNames ==
    { <<"x.rs", "rs">>, <<"auth_test.go", "go">>, <<"Auth_Test.go", "go">>,
      <<"api.pb.go", "go">>, <<"types.generated.ts", "ts">>,
      <<"app.spec.ts", "ts">>, <<"test_db.py", "py">>,
      <<"test_data.json", "json">>, <<"Cargo.toml", "toml">>,
      <<"config.yaml", "yaml">>, <<".gitignore", "">>, <<".env.local", "local">>,
      <<"README.md", "md">>, <<"guide.rst", "rst">>, <<"index.html", "html">>,
      <<"style.css", "css">>, <<"notes.txt", "txt">>, <<"Makefile", "">>,
      <<"main.R", "R">>, <<"spec", "">>, <<"docs", "">> }

DirLists ==
    { <<>>, <<"src">>, <<"tests">>, <<"tests", "vendor">>, <<"docs">>,
      <<"src", "generated">>, <<"node_modules", "pkg">>, <<"__tests__">>,
      <<"spec">>, <<"Tests">>, <<"docs", "tests">> }

RolePaths == {RolePath(d, n[1], n[2]) : d \in DirLists, n \in FileNames}

\* Language::from_extension on the extensions that occur.
from_extension(ext) ==
    CASE ext = "rs" -> "Rust"
      [] ext = "go" -> "Go"
      [] ext = "py" -> "Python"
      [] ext = "ts" -> "TypeScript"
      [] ext = "md" -> "Markdown"
      [] ext = "yaml" -> "Yaml"
      [] ext = "toml" -> "Toml"
      [] ext = "json" -> "Json"
      [] ext = "html" -> "Html"
      [] ext = "css" -> "Css"
      [] ext = "R" -> "R"
      [] OTHER -> "Other"

\* Language::is_programming_language
is_programming_language(lang) ==
    lang \in {"Rust", "Go", "Python", "JavaScript", "TypeScript", "Java", "Ruby",
              "C", "Cpp", "Shell", "Swift", "Kotlin", "Scala", "Haskell",
              "Elixir", "Lua", "Php", "R"}

\* path_str.split(['/', '\\']).any(|c| c == component)
path_contains_component(path, component) ==
    \/ \E i \in 1..Len(path.dirs) : path.dirs[i] = component
    \/ path.name = component

\* is_generated_filename, is_test_filename, is_build_filename,
\* is_config_extension, is_config_filename: on the names of FileNames.
is_generated_filename(file_name) ==
    file_name \in {"api.pb.go", "types.generated.ts"}

is_test_filename(file_name) ==
    file_name \in {"auth_test.go", "Auth_Test.go", "app.spec.ts", "test_db.py"}

is_build_filename(file_name) == file_name \in {"Cargo.toml", "Makefile"}

is_config_extension(ext) == ext \in {"yaml", "yml", "toml", "json", "ini", "cfg", "env"}

is_config_filename(file_name) == file_name \in {".gitignore", ".env.local"}

\* A slip: the test rules are asked before the generated ones.
from_path_test_first(path) ==
    IF \/ path_contains_component(path, "tests")
       \/ path_contains_component(path, "__tests__")
       \/ path_contains_component(path, "spec")
       \/ is_test_filename(path.name)
    THEN "Test"
    ELSE IF \/ path_contains_component(path, "vendor")
            \/ path_contains_component(path, "node_modules")
            \/ path_contains_component(path, "generated")
            \/ is_generated_filename(path.name)
    THEN "Generated"
    ELSE IF is_programming_language(from_extension(path.ext)) THEN "Implementation"
    ELSE "Other"

\* FileRole::from_path
from_path(path) ==
    IF \/ path_contains_component(path, "vendor")
       \/ path_contains_component(path, "node_modules")
       \/ path_contains_component(path, "generated")
    THEN "Generated"
    ELSE IF is_generated_filename(path.name) THEN "Generated"
    ELSE IF \/ path_contains_component(path, "tests")
            \/ path_contains_component(path, "__tests__")
            \/ path_contains_component(path, "spec")
    THEN "Test"
    ELSE IF is_test_filename(path.name) THEN "Test"
    ELSE IF path_contains_component(path, "docs") THEN "Documentation"
    ELSE IF is_build_filename(path.name) THEN "Build"
    ELSE IF is_config_extension(path.ext) \/ is_config_filename(path.name) THEN "Config"
    ELSE IF path.ext \in {"md", "mdx", "rst"} THEN "Documentation"
    ELSE IF \/ is_programming_language(from_extension(path.ext))
            \/ from_extension(path.ext) \in {"Html", "Css"}
    THEN "Implementation"
    ELSE "Other"

InitRole ==
    /\ \E path \in RolePaths : fr = [NoRole EXCEPT !.path = path]
    /\ BudgetIdle
    /\ IndexIdle
    /\ StatsIdle
    /\ CallsIdle
    /\ TailIdle
    /\ par = NoPar
    /\ ig = NoGraph
    /\ go = NoResolve
    /\ sc = NoScan
    /\ pr = NoRank

\* FileRole::from_path(path)
Classify ==
    /\ ~fr.done
    /\ fr' = [fr EXCEPT !.role = from_path(fr.path), !.done = TRUE]
    /\ UNCHANGED <<bvars, ivars, svars, cvars, par, ig, go, sc, pr, tvars>>

NextRole == Classify

SpecRole == InitRole /\ [][NextRole]_vars

\* The rules of C16 in their priority order, each with its role; the last
\* one, which always applies, is left to the two readings below.
RoleRules(path) ==
    << [applies |-> \/ \E c \in {"vendor", "node_modules", "generated"} :
                          path_contains_component(path, c)
                    \/ is_generated_filename(path.name),
        role |-> "Generated"],
       [applies |-> \/ \E c \in {"tests", "__tests__", "spec"} :
                          path_contains_component(path, c)
                    \/ is_test_filename(path.name),
        role |-> "Test"],
       [applies |-> path_contains_component(path, "docs"), role |-> "Documentation"],
       [applies |-> is_build_filename(path.name), role |-> "Build"],
       [applies |-> is_config_extension(path.ext) \/ is_config_filename(path.name),
        role |-> "Config"],
       [applies |-> path.ext \in {"md", "mdx", "rst"}, role |-> "Documentation"] >>

\* The role of the first rule that applies, or else the fallback.
FirstRule(rules, fallback) ==
    IF \E i \in 1..Len(rules) : rules[i].applies
    THEN rules[CHOOSE i \in 1..Len(rules) :
                  rules[i].applies /\ \A j \in 1..(i - 1) : ~rules[j].applies].role
    ELSE fallback

MaxTreeEntries == 5

MaxIgnored == 1

Slash == 47

Backslash == 92

\* The bytes of the file names that occur.
name_bytes(name) ==
    CASE name = "a" -> <<97>>
      [] name = "b" -> <<98>>
      [] name = "B" -> <<66>>
      [] name = "p" -> <<112>>
      [] name = "a-b" -> <<97, 45, 98>>
      [] name = "a\\b" -> <<97, 92, 98>>
      [] name = ".env" -> <<46, 101, 110, 118>>
      [] name = ".git" -> <<46, 103, 105, 116>>
      [] name = ".atlas" -> <<46, 97, 116, 108, 97, 115>>
      [] name = "node_modules" ->
            <<110, 111, 100, 101, 95, 109, 111, 100, 117, 108, 101, 115>>

ALWAYS_SKIP_DIRS ==
    {".git", "node_modules", ".topo", "__pycache__", ".venv", "venv", ".env",
     ".svn", ".hg"}

\* What a tree may hold: directories, a named pipe, regular files.
TreeDirs == { <<"a">>, <<"a", ".git">>, <<"node_modules">>, <<".atlas">> }

TreePipes == { <<"p">> }

TreeFiles ==
    { <<"a", "b">>, <<"a\\b">>, <<"a-b">>, <<"B">>, <<".env">>,
      <<"a", ".git", "b">>, <<"node_modules", "b">>, <<".atlas", "b">> }

TreeEntries == TreeDirs \cup TreePipes \cup TreeFiles

is_dir(e) == e \in TreeDirs

is_file(e) == e \in TreeFiles

parent(e) == SubSeq(e, 1, Len(e) - 1)

file_name(e) == e[Len(e)]

Trees ==
    {t \in SUBSET TreeEntries :
        /\ Cardinality(t) <= MaxTreeEntries
        /\ \A e \in t : Len(e) > 1 => parent(e) \in t}

\* The entries the gitignore rules match, whatever the rules are.
IgnoreSets(tree) == {g \in SUBSET tree : Cardinality(g) <= MaxIgnored}

read_dir(tree, dir) == {e \in tree : Len(e) = Len(dir) + 1 /\ parent(e) = dir}

\* The walker leaves the directories it has finished.
RECURSIVE settle(_)
settle(stack) ==
    IF stack # <<>> /\ stack[Len(stack)] = {}
    THEN settle(SubSeq(stack, 1, Len(stack) - 1))
    ELSE stack

\* WalkBuilder::new(root)...build(): the walk starts in the root.
walker(tree) == settle(<<read_dir(tree, <<>>)>>)

\* rel_path.to_string_lossy(): the names joined by the separator.
RECURSIVE to_string_lossy(_)
to_string_lossy(e) ==
    IF Len(e) = 1 THEN name_bytes(e[1])
    ELSE to_string_lossy(parent(e)) \o <<Slash>> \o name_bytes(file_name(e))

\* .replace('\\', "/")
replace(bytes) == [i \in 1..Len(bytes) |-> IF bytes[i] = Backslash THEN Slash ELSE bytes[i]]

rel_str(e) == replace(to_string_lossy(e))

\* files.push(FileInfo {..}): the path, and (for size and sha256) the file read.
file_info(e) == [path |-> rel_str(e), file |-> e]

\* String::cmp: byte-lexicographic.
RECURSIVE cmp_from(_, _, _)
cmp_from(a, b, i) ==
    IF i > Len(a) /\ i > Len(b) THEN "Equal"
    ELSE IF i > Len(a) THEN "Less"
    ELSE IF i > Len(b) THEN "Greater"
    ELSE IF a[i] < b[i] THEN "Less"
    ELSE IF a[i] > b[i] THEN "Greater"
    ELSE cmp_from(a, b, i + 1)

cmp(a, b) == cmp_from(a, b, 1)

\* files.sort_by(|a, b| a.path.cmp(&b.path)): a stable sort.
insert_sorted(sorted, x) ==
    LET k == Cardinality({i \in 1..Len(sorted) : cmp(sorted[i].path, x.path) # "Greater"})
    IN  SubSeq(sorted, 1, k) \o <<x>> \o SubSeq(sorted, k + 1, Len(sorted))

RECURSIVE sort_by(_)
sort_by(fs) ==
    IF fs = <<>> THEN <<>>
    ELSE insert_sorted(sort_by(SubSeq(fs, 1, Len(fs) - 1)), fs[Len(fs)])

InitScan ==
    /\ \E tree \in Trees : \E ignored \in IgnoreSets(tree) :
          sc = [tree |-> tree, ignored |-> ignored, stack |-> walker(tree),
                files |-> <<>>, scans |-> <<>>]
    /\ BudgetIdle
    /\ IndexIdle
    /\ StatsIdle
    /\ CallsIdle
    /\ TailIdle
    /\ par = NoPar
    /\ ig = NoGraph
    /\ go = NoResolve
    /\ fr = NoRole
    /\ pr = NoRank

\* One round of `for entry in walker`: the walker yields e, or passes over it.
WalkEntry(e) ==
    /\ Len(sc.scans) < 2
    /\ sc.stack # <<>>
    /\ e \in sc.stack[Len(sc.stack)]
    /\ LET rest == [sc.stack EXCEPT ![Len(sc.stack)] = @ \ {e}]
           skipped == \/ e \in sc.ignored
                      \/ is_dir(e) /\ file_name(e) \in ALWAYS_SKIP_DIRS
       IN  sc' = [sc EXCEPT
                    !.stack = settle(IF ~skipped /\ is_dir(e)
                                     THEN Append(rest, read_dir(sc.tree, e))
                                     ELSE rest),
                    !.files = IF ~skipped /\ is_file(e)
                              THEN Append(@, file_info(e))
                              ELSE @]
    /\ UNCHANGED <<bvars, ivars, svars, cvars, par, ig, go, fr, pr, tvars>>

\* The walk is over: scan sorts and returns; the next scan of the tree starts.
SortFiles ==
    /\ Len(sc.scans) < 2
    /\ sc.stack = <<>>
    /\ sc' = [sc EXCEPT !.scans = Append(@, sort_by(sc.files)),
                        !.files = <<>>,
                        !.stack = walker(sc.tree)]
    /\ UNCHANGED <<bvars, ivars, svars, cvars, par, ig, go, fr, pr, tvars>>

NextScan ==
    \/ \E e \in TreeEntries : WalkEntry(e)
    \/ SortFiles

SpecScan == InitScan /\ [][NextScan]_vars

\* The directories above an entry.
Ancestors(e) == {SubSeq(e, 1, k) : k \in 1..(Len(e) - 1)}

Scanned(k) == {sc.scans[k][i].file : i \in 1..Len(sc.scans[k])}

HardBlocked ==
    {".git", "node_modules", ".topo", ".atlas", "__pycache__", ".venv", "venv",
     ".env", ".svn", ".hg"}

\* C17: no file a scan returns lies inside a directory named .git,
\* node_modules, .topo, .atlas, __pycache__, .venv, venv, .env, .svn or .hg,
\* whatever the gitignore rules match; a regular file that no gitignore rule
\* and no such directory keeps out is returned, whatever its own name.
C17_HardBlockedDirs ==
    \A k \in 1..Len(sc.scans) :
        /\ \A e \in Scanned(k) : \A d \in Ancestors(e) : file_name(d) \notin HardBlocked
        /\ \A e \in sc.tree :
              ( /\ is_file(e)
                /\ e \notin sc.ignored
                /\ \A d \in Ancestors(e) :
                      d \notin sc.ignored /\ file_name(d) \notin HardBlocked )
              => e \in Scanned(k)

\* The paths of a scan ascend, byte by byte.
Ascending(fs) ==
    \A i \in 1..Len(fs) : \A j \in (i + 1)..Len(fs) : cmp(fs[i].path, fs[j].path) # "Greater"

\* Non-empty, relative, and with no separator but '/'.
WellFormed(path) ==
    /\ path # <<>>
    /\ path[1] # Slash
    /\ \A i \in 1..Len(path) : path[i] # Backslash

\* C18: a scan returns its files sorted ascending by path, byte by byte,
\* whatever order the walker yields the entries in, so two scans of the same
\* tree return the same sequence; every path is non-empty, relative and uses
\* '/' separators.
C18_SortedAndDeterministic ==
    /\ \A k \in 1..Len(sc.scans) :
          /\ Ascending(sc.scans[k])
          /\ \A i \in 1..Len(sc.scans[k]) : WellFormed(sc.scans[k][i].path)
    /\ Len(sc.scans) = 2 => sc.scans[1] = sc.scans[2]

(***************************************************************************)
(* f64 arithmetic on the values PageRank takes: sums, differences,         *)
(* products and quotients of non-negative doubles, each rounded to         *)
(* nearest, ties to even.                                                  *)
(***************************************************************************)
\* A numeral without its leading zeros.
Strip(bits) ==
    IF \A i \in 1..Len(bits) : bits[i] = 0 THEN <<>>
    ELSE SubSeq(bits, CHOOSE i \in 1..Len(bits) :
                          bits[i] = 1 /\ \A j \in 1..(i - 1) : bits[j] = 0,
                Len(bits))

\* a + b, one bit longer than the longer of the two: position i takes a carry
\* when a lower position makes one and every position between passes it on.
NumAdd(a, b) ==
    LET n == IF Len(a) >= Len(b) THEN Len(a) ELSE Len(b)
        x == PadTo(a, n)
        y == PadTo(b, n)
        Carry(i) == \E j \in (i + 1)..n :
                        /\ x[j] + y[j] = 2
                        /\ \A k \in (i + 1)..(j - 1) : x[k] + y[k] = 1
    IN  [i \in 1..(n + 1) |->
            IF i = 1 THEN (IF Carry(0) THEN 1 ELSE 0)
            ELSE (x[i - 1] + y[i - 1] + (IF Carry(i - 1) THEN 1 ELSE 0)) % 2]

\* a - b for numerals of one length with a >= b: position i lends when a
\* lower position borrows and every position between passes it on.
NumSub(a, b) ==
    LET Borrow(i) == \E j \in (i + 1)..Len(a) :
                        /\ a[j] < b[j]
                        /\ \A k \in (i + 1)..(j - 1) : a[k] = b[k]
    IN  [i \in 1..Len(a) |-> (a[i] - b[i] - (IF Borrow(i) THEN 1 ELSE 0) + 2) % 2]

\* Numerals are multiplied and divided in base 2^LimbBits, digit by digit:
\* a product of two digits, and a column of such products, stays below 2^31.
LimbBits == 14

LimbBase == 2^LimbBits

\* The digits of a numeral of bits, and the bits of a numeral of digits.
ToLimbs(bits) ==
    LET n == (Len(bits) + LimbBits - 1) \div LimbBits
        p == PadTo(bits, n * LimbBits)
        RECURSIVE Digit(_, _, _)
        Digit(k, j, v) ==
            IF j > LimbBits THEN v
            ELSE Digit(k, j + 1, 2 * v + p[(k - 1) * LimbBits + j])
    IN  [k \in 1..n |-> Digit(k, 1, 0)]

FromLimbs(limbs) ==
    [i \in 1..(Len(limbs) * LimbBits) |->
        (limbs[(i - 1) \div LimbBits + 1] \div 2^(LimbBits - 1 - ((i - 1) % LimbBits))) % 2]

\* a * b for numerals of n digits each: the 2n columns of digit products,
\* then the carries from the last column up.
LimbColumns(a, b) ==
    LET n == Len(a)
        RECURSIVE Column(_, _)
        Column(c, i) ==
            IF i > n THEN 0
            ELSE (IF c - i \in 1..n THEN a[i] * b[c - i] ELSE 0) + Column(c, i + 1)
    IN  [c \in 1..(2 * n) |-> Column(c, 1)]

RECURSIVE LimbCarry(_, _, _)
LimbCarry(columns, carry, acc) ==
    IF Len(acc) = Len(columns) THEN acc
    ELSE LimbCarry(columns,
                   (columns[Len(columns) - Len(acc)] + carry) \div LimbBase,
                   <<(columns[Len(columns) - Len(acc)] + carry) % LimbBase>> \o acc)

NumMul(a, b) == FromLimbs(LimbCarry(LimbColumns(ToLimbs(a), ToLimbs(b)), 0, <<>>))

LimbGeq(a, b) ==
    \/ a = b
    \/ \E i \in 1..Len(a) : a[i] > b[i] /\ \A j \in 1..(i - 1) : a[j] = b[j]

\* 2 * a, within the digits of a.
LimbDouble(a) ==
    [i \in 1..Len(a) |->
        (2 * a[i] + (IF i < Len(a) /\ 2 * a[i + 1] >= LimbBase THEN 1 ELSE 0)) % LimbBase]

\* a - b for a >= b.
LimbSub(a, b) ==
    LET Borrow(i) == \E j \in (i + 1)..Len(a) :
                        /\ a[j] < b[j]
                        /\ \A k \in (i + 1)..(j - 1) : a[k] = b[k]
    IN  [i \in 1..Len(a) |->
            (a[i] - b[i] - (IF Borrow(i) THEN 1 ELSE 0) + LimbBase) % LimbBase]

\* x < y
F64Less(x, y) ==
    IF y = F64Zero THEN FALSE
    ELSE IF x = F64Zero THEN TRUE
    ELSE \/ x.exp < y.exp
         \/ x.exp = y.exp /\ x.mant # y.mant /\ NumGeq(y.mant, x.mant)

\* f64::max
F64Max(x, y) == IF F64Less(x, y) THEN y ELSE x

\* x + y
F64Add(x, y) ==
    IF x = F64Zero THEN y
    ELSE IF y = F64Zero THEN x
    ELSE LET e == IF x.exp < y.exp THEN x.exp ELSE y.exp
         IN  RoundBits(Strip(NumAdd(x.mant \o Zeros(x.exp - e),
                                    y.mant \o Zeros(y.exp - e))), e, FALSE)

\* (x - y).abs()
F64AbsDiff(x, y) ==
    IF x = y THEN F64Zero
    ELSE LET hi == F64Max(x, y)
             lo == IF hi = x THEN y ELSE x
         IN  IF lo = F64Zero THEN hi
             ELSE LET a == hi.mant \o Zeros(hi.exp - lo.exp)
                  IN  RoundBits(Strip(NumSub(a, PadTo(lo.mant, Len(a)))), lo.exp, FALSE)

\* x * y
F64Mul(x, y) ==
    IF x = F64Zero \/ y = F64Zero THEN F64Zero
    ELSE RoundBits(Strip(NumMul(x.mant, y.mant)), x.exp + y.exp, FALSE)

\* Further quotient bits of r / d by long division, r < d numerals of
\* digits with a bit to spare: acc holds the bits so far.
RECURSIVE QuotBits(_, _, _, _)
QuotBits(r, d, count, acc) ==
    IF Len(acc) = count THEN [bits |-> acc, rem |-> r]
    ELSE IF LimbGeq(LimbDouble(r), d)
         THEN QuotBits(LimbSub(LimbDouble(r), d), d, count, Append(acc, 1))
         ELSE QuotBits(LimbDouble(r), d, count, Append(acc, 0))

\* x / y for y > 0: the quotient's first MantBits + 1 bits, the remainder as
\* the sticky bit.
F64Quot(x, y) ==
    IF x = F64Zero THEN F64Zero
    ELSE LET d == ToLimbs(y.mant)
             whole == NumGeq(x.mant, y.mant)
             first == IF whole THEN ToLimbs(x.mant) ELSE LimbDouble(ToLimbs(x.mant))
             q == QuotBits(LimbSub(first, d), d, MantBits + 1, <<1>>)
         IN  RoundBits(q.bits,
                       x.exp - y.exp - MantBits - (IF whole THEN 0 ELSE 1),
                       \E i \in 1..Len(q.rem) : q.rem[i] # 0)

(***************************************************************************)
(* atlas-score: ImportGraph::pagerank and normalized_pagerank              *)
(***************************************************************************)
MaxRankEdges == 2

MAX_ITERATIONS == 100

\* The literals 0.85 and 1e-6: the doubles nearest to 85/100 and 1/1000000.
DAMPING == F64Div(85, 100)

EPSILON == F64Div(1, 1000000)

\* The edges a graph is made of, in the order add_edge is called.
RankEdges ==
    << <<"a", "a">>, <<"a", "b">>, <<"a", "c">>, <<"b", "a">>, <<"b", "b">>,
       <<"b", "c">>, <<"c", "a">>, <<"c", "b">>, <<"c", "c">> >>

RECURSIVE graph_from(_, _, _)
graph_from(g, chosen, i) ==
    IF i > Len(RankEdges) THEN g
    ELSE IF i \in chosen
         THEN graph_from(add_edge(g, RankEdges[i][1], RankEdges[i][2]), chosen, i + 1)
         ELSE graph_from(g, chosen, i + 1)

\* tests::pagerank_star: a, b and c all import d.
StarGraph ==
    add_edge(add_edge(add_edge(new_graph, "a.rs", "d.rs"), "b.rs", "d.rs"),
             "c.rs", "d.rs")

\* new(), new() with one add_node, the star, and the graphs of up to
\* MaxRankEdges edges.
RankGraphs ==
    {new_graph, add_node(new_graph, "a"), StarGraph}
        \cup {graph_from(new_graph, chosen, 1) :
                chosen \in {c \in SUBSET (1..Len(RankEdges)) :
                               Cardinality(c) <= MaxRankEdges}}

\* incoming[node]: the sources in the order `for (from, tos) in &self.edges`
\* visits the keys, once per edge.
RECURSIVE inbound(_, _, _, _)
inbound(g, keys, node, i) ==
    IF i > Len(keys) THEN <<>>
    ELSE [k \in 1..Count(g.edges[keys[i]], node) |-> keys[i]]
            \o inbound(g, keys, node, i + 1)

incoming_of(g, keys) == [node \in DOMAIN g.edges |-> inbound(g, keys, node, 1)]

\* A HashMap is iterated in an unspecified order: every order of the keys.
Incomings(g) ==
    {incoming_of(g, [i \in 1..Len(g.nodes) |-> g.nodes[p[i]]]) : p \in Perms(Len(g.nodes))}

out_degree(g, node) == Len(g.edges[node])

\* rank = (1.0 - DAMPING) / n as f64, then
\* rank += DAMPING * src_score / src_out as f64 for every src of inbound.
RECURSIVE rank_from(_, _, _, _, _)
rank_from(g, scores, sources, i, rank) ==
    IF i > Len(sources) THEN rank
    ELSE rank_from(g, scores, sources, i + 1,
             F64Add(rank, F64Quot(F64Mul(DAMPING, scores[sources[i]]),
                                  IntToF64(out_degree(g, sources[i])))))

rank_of(g, incoming, scores, node) ==
    rank_from(g, scores, incoming[node], 1,
              F64Quot(F64AbsDiff(F64One, DAMPING), IntToF64(Len(g.nodes))))

\* max_diff = max_diff.max((rank - old).abs()), node by node from 0.0
RECURSIVE max_diff_from(_, _, _, _, _)
max_diff_from(nodes, old, new, i, max_diff) ==
    IF i > Len(nodes) THEN max_diff
    ELSE max_diff_from(nodes, old, new, i + 1,
             F64Max(max_diff, F64AbsDiff(new[nodes[i]], old[nodes[i]])))

\* A slip: the scores are divided by their sum.
RECURSIVE fold_sum(_, _, _)
fold_sum(nodes, scores, i) ==
    IF i > Len(nodes) THEN F64Zero
    ELSE F64Add(scores[nodes[i]], fold_sum(nodes, scores, i + 1))

\* scores.values().cloned().fold(0.0f64, f64::max)
RECURSIVE fold_max(_, _, _)
fold_max(nodes, scores, i) ==
    IF i > Len(nodes) THEN F64Zero
    ELSE F64Max(scores[nodes[i]], fold_max(nodes, scores, i + 1))

\* normalized_pagerank, after self.pagerank() has returned scores
normalized(nodes, scores) ==
    IF nodes = <<>> THEN scores
    ELSE LET max == fold_max(nodes, scores, 1)
         IN  IF max = F64Zero THEN scores
             ELSE [node \in DOMAIN scores |-> F64Quot(scores[node], max)]

InitRank ==
    /\ \E g \in RankGraphs : pr = [NoRank EXCEPT !.graph = g, !.pc = "called"]
    /\ BudgetIdle
    /\ IndexIdle
    /\ StatsIdle
    /\ CallsIdle
    /\ TailIdle
    /\ par = NoPar
    /\ ig = NoGraph
    /\ go = NoResolve
    /\ fr = NoRole
    /\ sc = NoScan

\* pagerank, up to the loop: an empty map for an empty graph, else the
\* initial scores, incoming and out_degree.
PagerankStart ==
    /\ pr.pc = "called"
    /\ IF pr.graph.nodes = <<>>
       THEN pr' = [pr EXCEPT !.pc = "returned"]
       ELSE \E incoming \in Incomings(pr.graph) :
               pr' = [pr EXCEPT
                        !.incoming = incoming,
                        !.scores = [node \in DOMAIN pr.graph.edges |->
                                       F64Quot(F64One, IntToF64(Len(pr.graph.nodes)))],
                        !.pc = "loop"]
    /\ UNCHANGED <<bvars, ivars, svars, cvars, par, ig, go, fr, sc, tvars>>

\* One round of `for _ in 0..MAX_ITERATIONS`, with its break.
PagerankRound ==
    /\ pr.pc = "loop"
    /\ \E new_scores \in {[node \in DOMAIN pr.scores |->
                             rank_of(pr.graph, pr.incoming, pr.scores, node)]} :
       \E max_diff \in {max_diff_from(pr.graph.nodes, pr.scores, new_scores, 1, F64Zero)} :
          pr' = [pr EXCEPT
                   !.old = pr.scores,
                   !.scores = new_scores,
                   !.max_diff = max_diff,
                   !.rounds = @ + 1,
                   !.pc = IF F64Less(max_diff, EPSILON) \/ pr.rounds + 1 = MAX_ITERATIONS
                          THEN "returned" ELSE "loop"]
    /\ UNCHANGED <<bvars, ivars, svars, cvars, par, ig, go, fr, sc, tvars>>

\* normalized_pagerank, from the return of self.pagerank() on
NormalizedPagerank ==
    /\ pr.pc = "returned"
    /\ pr' = [pr EXCEPT !.result = normalized(pr.graph.nodes, pr.scores),
                        !.pc = "normalized"]
    /\ UNCHANGED <<bvars, ivars, svars, cvars, par, ig, go, fr, sc, tvars>>

NextRank ==
    \/ PagerankStart
    \/ PagerankRound
    \/ NormalizedPagerank

SpecRank == InitRank /\ [][NextRank]_vars

RankNodeSet == {pr.graph.nodes[i] : i \in 1..Len(pr.graph.nodes)}

\* The largest per-node change of the last round.
LargestChange(d) ==
    /\ \A node \in RankNodeSet : ~F64Less(d, F64AbsDiff(pr.scores[node], pr.old[node]))
    /\ \E node \in RankNodeSet : d = F64AbsDiff(pr.scores[node], pr.old[node])

\* C19: for a non-empty graph every score normalized_pagerank returns lies
\* in (0, 1] and some node has exactly 1.0; for the empty graph the result
\* is empty; the iteration stops after at most 100 rounds, or as soon as the
\* largest per-node change is below 1e-6, and not before.
C19_NormalizedRange ==
    /\ pr.pc = "normalized" =>
          /\ DOMAIN pr.result = RankNodeSet
          /\ \A node \in RankNodeSet :
                /\ F64Less(F64Zero, pr.result[node])
                /\ ~F64Less(F64One, pr.result[node])
          /\ RankNodeSet # {} => \E node \in RankNodeSet : pr.result[node] = F64One
    /\ pr.rounds <= MAX_ITERATIONS
    /\ pr.rounds > 0 =>
          /\ LargestChange(pr.max_diff)
          /\ pr.pc = "loop" => ~F64Less(pr.max_diff, EPSILON) /\ pr.rounds < MAX_ITERATIONS
          /\ pr.pc \in {"returned", "normalized"} =>
                F64Less(pr.max_diff, EPSILON) \/ pr.rounds = MAX_ITERATIONS

\* A graph of several rounds, normalized: one node at 1.0, another below.
C19_Witness ==
    /\ pr.pc = "normalized"
    /\ pr.rounds > 2
    /\ \E node, other \in RankNodeSet :
          /\ pr.result[node] = F64One
          /\ F64Less(pr.result[other], F64One)

\* The scores added up in node order.
RECURSIVE SumScores(_, _, _)
SumScores(nodes, scores, i) ==
    IF i > Len(nodes) THEN F64Zero
    ELSE F64Add(scores[nodes[i]], SumScores(nodes, scores, i + 1))

\* C20: mass is conserved: after every round the unnormalized scores of a
\* non-empty graph sum to 1 (here: to within 1e-6 of it), dangling nodes or
\* not.
C20_MassConserved ==
    (pr.rounds > 0 /\ pr.graph.nodes # <<>>) =>
        F64Less(F64AbsDiff(SumScores(pr.graph.nodes, pr.scores, 1), F64One), EPSILON)

(***************************************************************************)
(* atlas-treesit: RegexChunker::chunk, the chunker every file goes through *)
(* (regex_chunker.rs).  A text is the sequence of its characters; the      *)
(* string operations of the standard library are modelled by what they     *)
(* compute.  SpecChunk calls chunk once on a content of up to MaxLines     *)
(* lines in one of the languages below.                                    *)
(***************************************************************************)
MaxLines == 3

Newline == "\n"

\* char::is_whitespace, over the characters used here.
is_whitespace(c) == c \in {" ", "\t", "\r", "\n"}

Lowercase == {"a", "b", "c", "d", "e", "f", "g", "h", "i", "j", "k", "l", "m", "n", "o", "p", "q", "r", "s", "t", "u", "v", "w", "x", "y", "z"}

Uppercase == {"A", "B", "C", "D", "E", "F", "G", "H", "I", "J", "K", "L", "M", "N", "O", "P", "Q", "R", "S", "T", "U", "V", "W", "X", "Y", "Z"}

Digits == {"0", "1", "2", "3", "4", "5", "6", "7", "8", "9"}

is_alphabetic(c) == c \in Lowercase \cup Uppercase

is_alphanumeric(c) == is_alphabetic(c) \/ c \in Digits

starts_with(s, p) == Len(p) <= Len(s) /\ SubSeq(s, 1, Len(p)) = p

strip_prefix(s, p) ==
    IF starts_with(s, p) THEN Some(SubSeq(s, Len(p) + 1, Len(s))) ELSE None

RECURSIVE trim_start_matches(_, _)
trim_start_matches(s, p) ==
    IF p # <<>> /\ starts_with(s, p)
    THEN trim_start_matches(SubSeq(s, Len(p) + 1, Len(s)), p)
    ELSE s

RECURSIVE trim_end_matches(_, _)
trim_end_matches(s, c) ==
    IF s # <<>> /\ s[Len(s)] = c
    THEN trim_end_matches(SubSeq(s, 1, Len(s) - 1), c)
    ELSE s

\* str::find(char): the first position of a character of cs, 0 for none.
find(s, cs) ==
    LET at == {i \in 1..Len(s) : s[i] \in cs}
    IN  IF at = {} THEN 0 ELSE CHOOSE i \in at : \A j \in at : i <= j

\* The last position of a character of cs, 0 for none.
rfind(s, cs) ==
    LET at == {i \in 1..Len(s) : s[i] \in cs}
    IN  IF at = {} THEN 0 ELSE CHOOSE i \in at : \A j \in at : j <= i

trim_start(s) ==
    LET at == {i \in 1..Len(s) : ~is_whitespace(s[i])}
    IN  IF at = {} THEN <<>>
        ELSE SubSeq(s, CHOOSE i \in at : \A j \in at : i <= j, Len(s))

trim_end(s) ==
    LET at == {i \in 1..Len(s) : ~is_whitespace(s[i])}
    IN  IF at = {} THEN <<>>
        ELSE SubSeq(s, 1, CHOOSE i \in at : \A j \in at : j <= i)

trim(s) == trim_end(trim_start(s))

\* str::lines: the pieces between line feeds, a final empty piece dropped
\* and a carriage return before a line feed removed.
RECURSIVE lines_from(_, _)
lines_from(s, acc) ==
    LET nl == find(s, {Newline})
        strip_cr(l) == IF l # <<>> /\ l[Len(l)] = "\r" THEN SubSeq(l, 1, Len(l) - 1) ELSE l
    IN  IF s = <<>> THEN acc
        ELSE IF nl = 0 THEN Append(acc, s)
        ELSE lines_from(SubSeq(s, nl + 1, Len(s)),
                        Append(acc, strip_cr(SubSeq(s, 1, nl - 1))))

lines(content) == lines_from(content, <<>>)

\* ident: rest.split(delims).next()?.trim(), None when empty.
ident(rest, delims) ==
    LET cut == find(rest, delims)
        name == trim(IF cut = 0 THEN rest ELSE SubSeq(rest, 1, cut - 1))
    IN  IF name = <<>> THEN None ELSE Some(name)

\* Option::map(|n| (kind, n)).
with_kind(kind, name) == IF name = None THEN None ELSE Some([kind |-> kind, name |-> name[1]])

extract_rust(line) ==
    LET stripped ==
            trim_start_matches(trim_start_matches(trim_start_matches(
            trim_start_matches(trim_start_matches(trim_start_matches(line,
                <<"p", "u", "b", " ">>), <<"p", "u", "b", "(", "c", "r", "a", "t", "e", ")", " ">>), <<"p", "u", "b", "(", "s", "u", "p", "e", "r", ")", " ">>),
                <<"a", "s", "y", "n", "c", " ">>), <<"u", "n", "s", "a", "f", "e", " ">>), <<"c", "o", "n", "s", "t", " ">>)
        after(p) == strip_prefix(stripped, p)
    IN  IF after(<<"f", "n", " ">>) # None
        THEN with_kind("Function", ident(after(<<"f", "n", " ">>)[1], {"(", "<", " "}))
        ELSE IF after(<<"s", "t", "r", "u", "c", "t", " ">>) # None
        THEN with_kind("Type", ident(after(<<"s", "t", "r", "u", "c", "t", " ">>)[1], {" ", "{", "<", "("}))
        ELSE IF after(<<"e", "n", "u", "m", " ">>) # None
        THEN with_kind("Type", ident(after(<<"e", "n", "u", "m", " ">>)[1], {" ", "{", "<"}))
        ELSE IF after(<<"t", "r", "a", "i", "t", " ">>) # None
        THEN with_kind("Type", ident(after(<<"t", "r", "a", "i", "t", " ">>)[1], {" ", "{", "<", ":"}))
        ELSE IF after(<<"t", "y", "p", "e", " ">>) # None
        THEN with_kind("Type", ident(after(<<"t", "y", "p", "e", " ">>)[1], {" ", "=", "<", ";"}))
        ELSE IF after(<<"i", "m", "p", "l", " ">>) # None
        THEN with_kind("Impl", ident(after(<<"i", "m", "p", "l", " ">>)[1], {" ", "{", "<"}))
        ELSE IF starts_with(stripped, <<"u", "s", "e", " ">>)
        THEN Some([kind |-> "Import", name |-> stripped])
        ELSE None

extract_python(line) ==
    LET stripped == trim_start_matches(line, <<"a", "s", "y", "n", "c", " ">>)
        after(p) == strip_prefix(stripped, p)
    IN  IF after(<<"d", "e", "f", " ">>) # None
        THEN with_kind("Function", ident(after(<<"d", "e", "f", " ">>)[1], {"("}))
        ELSE IF after(<<"c", "l", "a", "s", "s", " ">>) # None
        THEN with_kind("Type", ident(after(<<"c", "l", "a", "s", "s", " ">>)[1], {"(", ":"}))
        ELSE IF starts_with(line, <<"i", "m", "p", "o", "r", "t", " ">>) \/ starts_with(line, <<"f", "r", "o", "m", " ">>)
        THEN Some([kind |-> "Import", name |-> line])
        ELSE None

extract_c_function_name(line) ==
    LET paren_pos == find(line, {"("})
        before_paren == trim(SubSeq(line, 1, paren_pos - 1))
        named == {i \in 1..Len(before_paren) : before_paren[i] \notin {" ", "*"}}
        last == CHOOSE i \in named : \A j \in named : j <= i
        head == SubSeq(before_paren, 1, last)
        name == SubSeq(head, rfind(head, {" ", "*"}) + 1, last)
    IN  IF paren_pos = 0 \/ before_paren = <<>> THEN None
        ELSE IF named = {} THEN None
        ELSE IF /\ is_alphabetic(name[1])
                /\ \A i \in 1..Len(name) : is_alphanumeric(name[i]) \/ name[i] \in {"_", ":"}
        THEN IF name \in {<<"s", "i", "z", "e", "o", "f">>, <<"t", "y", "p", "e", "o", "f">>, <<"a", "l", "i", "g", "n", "o", "f">>, <<"d", "e", "f", "i", "n", "e", "d">>}
             THEN None ELSE Some(name)
        ELSE None

RECURSIVE extract_c_cpp(_)
extract_c_cpp(line) ==
    LET stripped ==
            trim_start_matches(trim_start_matches(trim_start_matches(
            trim_start_matches(trim_start_matches(line,
                <<"s", "t", "a", "t", "i", "c", " ">>), <<"i", "n", "l", "i", "n", "e", " ">>), <<"e", "x", "t", "e", "r", "n", " ">>),
                <<"v", "i", "r", "t", "u", "a", "l", " ">>), <<"e", "x", "p", "l", "i", "c", "i", "t", " ">>)
        after(p) == strip_prefix(stripped, p)
        enum_rest == LET rest == after(<<"e", "n", "u", "m", " ">>)[1]
                     IN  IF starts_with(rest, <<"c", "l", "a", "s", "s", " ">>)
                         THEN strip_prefix(rest, <<"c", "l", "a", "s", "s", " ">>)[1] ELSE rest
        typedef_rest == trim_end_matches(after(<<"t", "y", "p", "e", "d", "e", "f", " ">>)[1], ";")
        typedef_name == trim(SubSeq(typedef_rest, rfind(typedef_rest, {" "}) + 1,
                                    Len(typedef_rest)))
        is_typedef == /\ after(<<"t", "y", "p", "e", "d", "e", "f", " ">>) # None
                      /\ rfind(typedef_rest, {" "}) # 0
                      /\ typedef_name # <<>>
                      /\ is_alphabetic(typedef_name[1])
        template_rest == after(<<"t", "e", "m", "p", "l", "a", "t", "e">>)[1]
        is_template == /\ after(<<"t", "e", "m", "p", "l", "a", "t", "e">>) # None
                       /\ find(template_rest, {">"}) # 0
        keyword == \E p \in {<<"i", "f", " ">>, <<"f", "o", "r", " ">>, <<"w", "h", "i", "l", "e", " ">>, <<"s", "w", "i", "t", "c", "h", " ">>,
                             <<"r", "e", "t", "u", "r", "n", " ">>, <<"c", "a", "s", "e", " ">>, <<"e", "l", "s", "e">>} : starts_with(stripped, p)
    IN  IF starts_with(line, <<"#", "i", "n", "c", "l", "u", "d", "e">>)
        THEN Some([kind |-> "Import", name |-> line])
        ELSE IF after(<<"s", "t", "r", "u", "c", "t", " ">>) # None
        THEN with_kind("Type", ident(after(<<"s", "t", "r", "u", "c", "t", " ">>)[1], {" ", "{", ":", ";"}))
        ELSE IF after(<<"c", "l", "a", "s", "s", " ">>) # None
        THEN with_kind("Type", ident(after(<<"c", "l", "a", "s", "s", " ">>)[1], {" ", "{", ":", ";"}))
        ELSE IF after(<<"e", "n", "u", "m", " ">>) # None
        THEN with_kind("Type", ident(enum_rest, {" ", "{", ":", ";"}))
        ELSE IF after(<<"u", "n", "i", "o", "n", " ">>) # None
        THEN with_kind("Type", ident(after(<<"u", "n", "i", "o", "n", " ">>)[1], {" ", "{", ";"}))
        ELSE IF after(<<"n", "a", "m", "e", "s", "p", "a", "c", "e", " ">>) # None
        THEN with_kind("Type", ident(after(<<"n", "a", "m", "e", "s", "p", "a", "c", "e", " ">>)[1], {" ", "{"}))
        ELSE IF is_typedef
        THEN Some([kind |-> "Type", name |-> typedef_name])
        ELSE IF is_template
        THEN extract_c_cpp(trim(SubSeq(template_rest, find(template_rest, {">"}) + 1,
                                       Len(template_rest))))
        ELSE IF find(stripped, {"("}) # 0 /\ ~keyword
        THEN with_kind("Function", extract_c_function_name(stripped))
        ELSE None

\* The languages chunk is called with here; Markdown stands for every
\* language the match sends to `_ => None`.
ChunkLanguages == {"Rust", "Python", "C", "Cpp", "Markdown"}

extract(language, trimmed) ==
    CASE language = "Rust" -> extract_rust(trimmed)
      [] language = "Python" -> extract_python(trimmed)
      [] language \in {"C", "Cpp"} -> extract_c_cpp(trimmed)
      [] OTHER -> None

\* (i + 1) as u32, with one line number for the line before.
line_num_index(i) == i

\* (i + 1) as u32 for the index i that enumerate() counts from 0.
line_num(i) == i + 1

\* Whether the loop passes over a line before looking at its language.
skipped(trimmed, language) ==
    \/ trimmed = <<>>
    \/ starts_with(trimmed, <<"/", "/">>)
    \/ starts_with(trimmed, <<"#">>) /\ language \notin {"C", "Cpp"}

\* The loop of chunk over content.lines().enumerate(), from index i on.
RECURSIVE chunk_from(_, _, _, _)
chunk_from(ls, language, i, chunks) ==
    IF i >= Len(ls) THEN chunks
    ELSE LET trimmed == trim(ls[i + 1])
             found == IF skipped(trimmed, language) THEN None
                      ELSE extract(language, trimmed)
         IN  chunk_from(ls, language, i + 1,
                 IF found = None THEN chunks
                 ELSE Append(chunks,
                          Chunk(found[1].kind, found[1].name, line_num(i), <<>>)))

chunk(content, language) == chunk_from(lines(content), language, 0, <<>>)

\* The lines a content is written from.
LinePool ==
    << <<>>,
       <<" ", " ">>,
       <<" ", "/", "/", "f", "n", " ", "b", "(", ")">>,
       <<"#", "i", "n", "c", "l", "u", "d", "e", " ", "x">>,
       <<"f", "n", " ", "a", "(", ")">>,
       <<"d", "e", "f", " ", "f", "(", ")", ":">>,
       <<"p", "u", "b", " ", "u", "s", "e", " ", "x", ";">>,
       <<"s", "t", "r", "u", "c", "t", " ", "S", " ", "{">> >>

\* The lines joined by line feeds, with or without one at the end.
RECURSIVE join(_, _)
join(ls, last) ==
    IF ls = <<>> THEN <<>>
    ELSE Head(ls) \o (IF Len(ls) > 1 \/ last THEN <<Newline>> ELSE <<>>) \o join(Tail(ls), last)

Contents ==
    {join([i \in DOMAIN pick |-> LinePool[pick[i]]], last) :
        pick \in UNION {[1..n -> 1..Len(LinePool)] : n \in 0..MaxLines},
        last \in BOOLEAN}

InitChunk ==
    /\ \E content \in Contents, language \in ChunkLanguages :
          ch = [NoChunker EXCEPT !.content = content, !.language = language]
    /\ RankIdle
    /\ tk = NoTokens
    /\ gi = NoImports
    /\ ini = NoInit
    /\ mi = NoServer
    /\ qy = NoQuery
    /\ qk = NoQuick
    /\ gr = NoImportGraph

\* RegexChunker::chunk returns.
ChunkContent ==
    /\ ~ch.done
    /\ ch' = [ch EXCEPT !.chunks = chunk(ch.content, ch.language), !.done = TRUE]
    /\ UNCHANGED <<bvars, ivars, svars, cvars, LaterVars, tk, gi, ini, mi, qy, qk, gr>>

NextChunk == ChunkContent

SpecChunk == InitChunk /\ [][NextChunk]_vars

MaxName == 5

UpperLetters == <<"A", "B", "C", "D", "E", "F", "G", "H", "I", "J", "K", "L", "M", "N", "O", "P", "Q", "R", "S", "T", "U", "V", "W", "X", "Y", "Z">>

LowerLetters == <<"a", "b", "c", "d", "e", "f", "g", "h", "i", "j", "k", "l", "m", "n", "o", "p", "q", "r", "s", "t", "u", "v", "w", "x", "y", "z">>

is_ascii_uppercase(c) == c \in Uppercase

is_ascii_lowercase(c) == c \in Lowercase

\* char::to_lowercase, over ASCII.
lower_char(c) ==
    IF is_ascii_uppercase(c)
    THEN LowerLetters[CHOOSE k \in 1..Len(UpperLetters) : UpperLetters[k] = c]
    ELSE c

ascii_lowercase(t) == [k \in 1..Len(t) |-> lower_char(t[k])]

\* bytes[i], counted from 0 as the code counts.
byte(s, i) == s[i + 1]

\* s[from..to], counted from 0, to excluded.
slice(s, from, to) == SubSeq(s, from + 1, to)

split_camel(bytes, i) == ~is_ascii_uppercase(byte(bytes, i - 1)) /\ is_ascii_uppercase(byte(bytes, i))

\* The acronym rule left out.
split_acronym_off(bytes, i) == FALSE

split_acronym(bytes, i) ==
    /\ is_ascii_uppercase(byte(bytes, i - 1))
    /\ is_ascii_lowercase(byte(bytes, i))
    /\ i >= 2
    /\ is_ascii_uppercase(byte(bytes, i - 2))

\* The loop `for i in 1..bytes.len()` of split_camel_case and what follows it.
RECURSIVE split_from(_, _, _, _)
split_from(s, i, start, parts) ==
    IF i >= Len(s)
    THEN IF start < Len(s) THEN Append(parts, slice(s, start, Len(s))) ELSE parts
    ELSE IF split_camel(s, i)
    THEN split_from(s, i + 1, i, Append(parts, slice(s, start, i)))
    ELSE IF split_acronym(s, i)
    THEN split_from(s, i + 1, i - 1,
             IF start < i - 1 THEN Append(parts, slice(s, start, i - 1)) ELSE parts)
    ELSE split_from(s, i + 1, start, parts)

split_camel_case(s) == IF s = <<>> THEN <<>> ELSE split_from(s, 1, 0, <<>>)

\* str::split(char): the pieces between the occurrences of c, empty ones kept.
RECURSIVE split_on(_, _, _)
split_on(s, c, acc) ==
    LET at == find(s, {c})
    IN  IF at = 0 THEN Append(acc, s)
        ELSE split_on(SubSeq(s, at + 1, Len(s)), c, Append(acc, SubSeq(s, 1, at - 1)))

\* Iterator::flat_map over a sequence of sequences.
RECURSIVE flatten(_)
flatten(ss) == IF ss = <<>> THEN <<>> ELSE Head(ss) \o flatten(Tail(ss))

\* filter(|t| t.len() >= 2).map(|t| t.to_lowercase()).
RECURSIVE keep_tokens(_)
keep_tokens(parts) ==
    IF parts = <<>> THEN <<>>
    ELSE (IF Len(Head(parts)) >= 2 THEN <<ascii_lowercase(Head(parts))>> ELSE <<>>)
         \o keep_tokens(Tail(parts))

\* tokenize_identifier: split on '_', split_camel_case, filter, lowercase.
identifier_tokens(name) ==
    LET words == split_on(name, "_", <<>>)
    IN  keep_tokens(flatten([k \in 1..Len(words) |-> split_camel_case(words[k])]))

NameAlphabet == {"a", "b", "A", "B", "2", "_"}

ParseHTTPResponse == <<"p", "a", "r", "s", "e", "H", "T", "T", "P", "R", "e", "s", "p", "o", "n", "s", "e">>

Names == UNION {[1..n -> NameAlphabet] : n \in 0..MaxName} \cup {ParseHTTPResponse}

InitTokens ==
    /\ \E name \in Names : tk = [NoTokens EXCEPT !.name = name]
    /\ RankIdle
    /\ ch = NoChunker
    /\ gi = NoImports
    /\ ini = NoInit
    /\ mi = NoServer
    /\ qy = NoQuery
    /\ qk = NoQuick
    /\ gr = NoImportGraph

\* tokenize_identifier returns.
Tokenize ==
    /\ ~tk.done
    /\ tk' = [tk EXCEPT !.tokens = identifier_tokens(tk.name), !.done = TRUE]
    /\ UNCHANGED <<bvars, ivars, svars, cvars, LaterVars, ch, gi, ini, mi, qy, qk, gr>>

NextTokens == Tokenize

SpecTokens == InitTokens /\ [][NextTokens]_vars

\* The positions after which the claim puts a cut in a word: a lowercase
\* letter followed by a capital, and the capital before the last capital of
\* a run that a lowercase letter follows.
ClaimedCuts(w) ==
    {k \in 1..(Len(w) - 1) :
        \/ w[k] \in Lowercase /\ w[k + 1] \in Uppercase
        \/ /\ w[k] \in Uppercase
           /\ w[k + 1] \in Uppercase
           /\ k + 2 <= Len(w)
           /\ w[k + 2] \in Lowercase}

\* The positions after which a piece of parts ends, the last piece left out.
RECURSIVE CutsOf(_, _)
CutsOf(parts, before) ==
    IF Len(parts) <= 1 THEN {}
    ELSE {before + Len(Head(parts))} \cup CutsOf(Tail(parts), before + Len(Head(parts)))

\* The words of the identifier tk holds: what lies between its underscores.
WordsOfName == split_on(tk.name, "_", <<>>)

\* The tokens the claim expects of pieces: those of 2 characters or more,
\* in order, in lowercase.
ExpectedTokens(pieces) ==
    LET kept == {k \in 1..Len(pieces) : Len(pieces[k]) >= 2}
        nth(j) == CHOOSE k \in kept : Cardinality({m \in kept : m <= k}) = j
    IN  [j \in 1..Cardinality(kept) |->
            [m \in 1..Len(pieces[nth(j)]) |->
                IF pieces[nth(j)][m] \in Uppercase
                THEN LowerLetters[CHOOSE u \in 1..26 : UpperLetters[u] = pieces[nth(j)][m]]
                ELSE pieces[nth(j)][m]]]

\* C22: every word of an identifier is cut at each lowercase-to-uppercase
\* boundary and before the last capital of an uppercase run that a
\* lowercase letter follows; the pieces, put together, are the word; the
\* tokens are the pieces of 2 characters or more, in order and in
\* lowercase; parseHTTPResponse gives parse, http, response.
C22_CamelCaseTokens ==
    tk.done =>
        LET words == WordsOfName
            pieces == [k \in 1..Len(words) |-> split_camel_case(words[k])]
        IN  /\ \A k \in 1..Len(words) :
                  /\ flatten(pieces[k]) = words[k]
                  /\ \A p \in 1..Len(pieces[k]) : pieces[k][p] # <<>>
                  /\ ClaimedCuts(words[k]) \subseteq CutsOf(pieces[k], 0)
            /\ tk.tokens = ExpectedTokens(flatten(pieces))
            /\ tk.name = ParseHTTPResponse =>
                  tk.tokens = <<<<"p", "a", "r", "s", "e">>, <<"h", "t", "t", "p">>, <<"r", "e", "s", "p", "o", "n", "s", "e">>>>

\* parseHTTPResponse has been tokenized into three tokens.
C22_Witness ==
    /\ tk.done
    /\ tk.name = ParseHTTPResponse
    /\ Len(tk.tokens) = 3

(***************************************************************************)
(* atlas-score: extract_go_imports (pagerank.rs), on a Go source given     *)
(* character by character.  SpecImports extracts the imports of one source *)
(* of up to MaxGoLines lines.                                              *)
(***************************************************************************)
MaxGoLines == 4

Quote == "\""

\* str::trim_matches(char).
trim_matches(s, c) ==
    LET at == {i \in 1..Len(s) : s[i] # c}
    IN  IF at = {} THEN <<>>
        ELSE SubSeq(s, CHOOSE i \in at : \A j \in at : i <= j,
                       CHOOSE i \in at : \A j \in at : j <= i)

\* The loop of extract_go_imports over content.lines(), from line i on.
RECURSIVE go_imports_from(_, _, _, _)
go_imports_from(ls, i, in_import_block, imports) ==
    IF i > Len(ls) THEN imports
    ELSE LET trimmed == trim(ls[i])
             rest == strip_prefix(trimmed, <<"i", "m", "p", "o", "r", "t", " ">>)
         IN  IF trimmed = <<"i", "m", "p", "o", "r", "t", " ", "(">>
             THEN go_imports_from(ls, i + 1, TRUE, imports)
             ELSE IF in_import_block /\ trimmed = <<")">>
             THEN go_imports_from(ls, i + 1, FALSE, imports)
             ELSE IF in_import_block
             THEN LET path == trim_matches(trimmed, Quote)
                  IN  go_imports_from(ls, i + 1, in_import_block,
                          IF path # <<>> THEN Append(imports, path) ELSE imports)
             ELSE IF rest # None
             THEN LET path == trim_matches(trim(rest[1]), Quote)
                  IN  go_imports_from(ls, i + 1, in_import_block,
                          IF path # <<>> /\ path # <<"(">>
                          THEN Append(imports, path) ELSE imports)
             ELSE go_imports_from(ls, i + 1, in_import_block, imports)

extract_go_imports(content) == go_imports_from(lines(content), 1, FALSE, <<>>)

\* Lines of a Go file: the two ends of an import block, entries of a block
\* (plain and with a package name before the path), a single-line import,
\* a blank line and a line of code.
BlockOpen == <<"i", "m", "p", "o", "r", "t", " ", "(">>

BlockClose == <<")">>

BlockEntries == {<<"\t", "\"", "f", "m", "t", "\"">>, <<"\t", "p", "b", " ", "\"", "a", "/", "b", "\"">>}

SingleImport == <<"i", "m", "p", "o", "r", "t", " ", "\"", "o", "s", "\"">>

Blank == <<>>

CodeLine == <<"x", "(", ")">>

GoLinePool == {BlockOpen, BlockClose, SingleImport, Blank, CodeLine} \cup BlockEntries

\* Whether ls is laid out as Go lays out imports: entries and blank lines
\* inside blocks only, every block closed, the rest outside.
RECURSIVE GoSource(_, _, _)
GoSource(ls, i, inside) ==
    IF i > Len(ls) THEN ~inside
    ELSE IF inside
    THEN \/ ls[i] = BlockClose /\ GoSource(ls, i + 1, FALSE)
         \/ ls[i] \in BlockEntries \cup {Blank} /\ GoSource(ls, i + 1, TRUE)
    ELSE \/ ls[i] = BlockOpen /\ GoSource(ls, i + 1, TRUE)
         \/ ls[i] \in {SingleImport, Blank, CodeLine} /\ GoSource(ls, i + 1, FALSE)

GoContents ==
    {join(ls, TRUE) :
        ls \in {l \in UNION {[1..n -> GoLinePool] : n \in 0..MaxGoLines} : GoSource(l, 1, FALSE)}}

InitImports ==
    /\ \E content \in GoContents : gi = [NoImports EXCEPT !.content = content]
    /\ RankIdle
    /\ ch = NoChunker
    /\ tk = NoTokens
    /\ ini = NoInit
    /\ mi = NoServer
    /\ qy = NoQuery
    /\ qk = NoQuick
    /\ gr = NoImportGraph

\* extract_go_imports returns.
ExtractGoImports ==
    /\ ~gi.done
    /\ gi' = [gi EXCEPT !.imports = extract_go_imports(gi.content), !.done = TRUE]
    /\ UNCHANGED <<bvars, ivars, svars, cvars, LaterVars, ch, tk, ini, mi, qy, qk, gr>>

NextImports == ExtractGoImports

SpecImports == InitImports /\ [][NextImports]_vars

\* The path P a line imports: what stands between its first and its last
\* quote.
QuotedPath(line) ==
    LET first == find(line, {Quote})
        last == rfind(line, {Quote})
    IN  IF first = 0 \/ first = last THEN None
        ELSE Some(SubSeq(line, first + 1, last - 1))

\* The import paths of a source, line by line: those of the entries of its
\* blocks and of its single-line imports.
RECURSIVE ImportPaths(_, _, _)
ImportPaths(ls, i, inside) ==
    IF i > Len(ls) THEN <<>>
    ELSE IF trim(ls[i]) = BlockOpen THEN ImportPaths(ls, i + 1, TRUE)
    ELSE IF inside /\ trim(ls[i]) = BlockClose THEN ImportPaths(ls, i + 1, FALSE)
    ELSE IF inside \/ starts_with(trim(ls[i]), <<"i", "m", "p", "o", "r", "t", " ">>)
    THEN QuotedPath(ls[i]) \o ImportPaths(ls, i + 1, inside)
    ELSE ImportPaths(ls, i + 1, inside)

\* C23: the imports returned for a Go source are the import paths of its
\* single-line imports and of the entries of its import blocks, in order:
\* nothing comes from other lines, and no token holds a quote or anything
\* but the path.
C23_GoImportsUnquoted ==
    gi.done =>
        /\ gi.imports = ImportPaths(lines(gi.content), 1, FALSE)
        /\ \A k \in 1..Len(gi.imports) : Quote \notin Range(gi.imports[k])

(***************************************************************************)
(* topo-cli: `topo init` (commands/init.rs).  patch_claude_settings on a   *)
(* project whose .claude/settings.json is absent, unreadable as JSON, or   *)
(* holds a JSON value.  A file is its text: the JSON value it spells and   *)
(* how it is laid out, or text that is not JSON.  SpecSettings calls       *)
(* patch_claude_settings up to MaxPatchCalls times.                        *)
(***************************************************************************)
MaxPatchCalls == 2

\* serde_json::Value, as far as the settings go.
JNull == [kind |-> "null"]

JString(s) == [kind |-> "string", s |-> s]

JArray(items) == [kind |-> "array", items |-> items]

JObject(fields) == [kind |-> "object", fields |-> fields]

EmptyFields == [k \in {} |-> JNull]

\* A hook entry: the array around one command hook.
HookEntry(command) == JArray(<<JObject([k \in {"type", "command"} |->
                                 IF k = "type" THEN JString("command") ELSE JString(command)])>>)

\* Value::get(key): None on anything but an object that has the key.
get(v, key) ==
    IF v.kind = "object" /\ key \in DOMAIN v.fields THEN Some(v.fields[key]) ELSE None

\* Map::insert.
insert(fields, key, value) ==
    [k \in DOMAIN fields \cup {key} |-> IF k = key THEN value ELSE fields[k]]

TopoEvents == {"UserPromptSubmit", "PreToolUse", "PostToolUse"}

topo_hooks ==
    JObject([k \in TopoEvents |->
        CASE k = "UserPromptSubmit" -> HookEntry("topo-context.sh")
          [] k = "PreToolUse" -> HookEntry("topo-hint.sh")
          [] k = "PostToolUse" -> HookEntry("topo-track.sh")])

\* The text of a file: laid out by its author or by to_string_pretty.
NoText == [exists |-> FALSE, json |-> FALSE, layout |-> "none", value |-> JNull]

NotJson == [exists |-> TRUE, json |-> FALSE, layout |-> "user", value |-> JNull]

UserText(v) == [exists |-> TRUE, json |-> TRUE, layout |-> "user", value |-> v]

\* serde_json::to_string_pretty(&settings) + "\n".
to_string_pretty(v) == [exists |-> TRUE, json |-> TRUE, layout |-> "pretty", value |-> v]

\* serde_json::from_str(&content).unwrap_or_else(|_| json!({})).
from_str_or_empty(text) == IF text.json THEN text.value ELSE JObject(EmptyFields)

\* for (key, value) in topo_hooks: obj.insert(key, value).
RECURSIVE insert_all(_, _, _)
insert_all(fields, from, keys) ==
    IF keys = {} THEN fields
    ELSE LET key == CHOOSE k \in keys : TRUE
         IN  insert_all(insert(fields, key, from[key]), from, keys \ {key})

\* patch_claude_settings(root, force) on a project whose settings file holds
\* text: the result and the text afterwards.  "panic" is the index
\* assignment on a value that is neither null nor an object.
patch_claude_settings(text, force) ==
    LET settings == IF text.exists THEN from_str_or_empty(text) ELSE JObject(EmptyFields)
        hooks == get(settings, "hooks")
        configured == /\ hooks # None
                      /\ \/ get(hooks[1], "UserPromptSubmit") # None
                         \/ get(hooks[1], "PreToolUse") # None
        merged ==
            IF hooks # None
            THEN IF hooks[1].kind = "object"
                 THEN JObject(insert(settings.fields, "hooks",
                          JObject(insert_all(hooks[1].fields, topo_hooks.fields, TopoEvents))))
                 ELSE settings
            ELSE IF settings.kind = "object"
                 THEN JObject(insert(settings.fields, "hooks", topo_hooks))
                 ELSE JObject(insert(EmptyFields, "hooks", topo_hooks))
    IN  IF ~force /\ configured THEN [result |-> "Skipped", text |-> text]
        ELSE IF hooks = None /\ settings.kind \notin {"object", "null"}
        THEN [result |-> "panic", text |-> text]
        ELSE [result |-> "Created", text |-> to_string_pretty(merged)]

\* The hook events a user may have entries for, and the settings files
\* calls start from.
UserEvents == TopoEvents \cup {"Stop"}

UserHooks ==
    {JString("off")} \cup
    {JObject([k \in events |-> HookEntry("user.sh")]) : events \in SUBSET UserEvents}

UserSettings ==
    {JNull, JArray(<<>>)} \cup
    {JObject(fields) : fields \in
        {[k \in {"allowedTools"} |-> JArray(<<JString("bash")>>)], EmptyFields}} \cup
    {JObject(insert(fields, "hooks", hooks)) :
        fields \in {[k \in {"allowedTools"} |-> JArray(<<JString("bash")>>)], EmptyFields},
        hooks \in UserHooks}

SettingsTexts == {NoText, NotJson} \cup {UserText(v) : v \in UserSettings}

InitSettings ==
    /\ \E text \in SettingsTexts :
          ini = [file |-> text, before |-> text, log |-> <<>>]
    /\ RankIdle
    /\ ch = NoChunker
    /\ tk = NoTokens
    /\ gi = NoImports
    /\ mi = NoServer
    /\ qy = NoQuery
    /\ qk = NoQuick
    /\ gr = NoImportGraph

\* One call of patch_claude_settings.
PatchClaudeSettings(force) ==
    /\ Len(ini.log) < MaxPatchCalls
    /\ LET out == patch_claude_settings(ini.file, force)
       IN  ini' = [file |-> out.text, before |-> ini.file,
                   log |-> Append(ini.log, [force |-> force, result |-> out.result])]
    /\ UNCHANGED <<bvars, ivars, svars, cvars, LaterVars, ch, tk, gi, mi, qy, qk, gr>>

NextSettings == \E force \in BOOLEAN : PatchClaudeSettings(force)

SpecSettings == InitSettings /\ [][NextSettings]_vars

\* Whether every key of the object v, and every hook entry under its
\* "hooks", is in w with the same value.
RECURSIVE Preserved(_, _)
Preserved(v, w) ==
    v.kind = "object" =>
        /\ w.kind = "object"
        /\ \A k \in DOMAIN v.fields :
              /\ k \in DOMAIN w.fields
              /\ IF k = "hooks" /\ v.fields[k].kind = "object"
                 THEN Preserved(v.fields[k], w.fields[k])
                 ELSE v.fields[k] = w.fields[k]

\* C24: patch_claude_settings keeps every key and value the settings file
\* held before the call, top-level settings and hook entries alike, and a
\* second call without force returns Skipped and leaves the file as it is.
C24_SettingsPreserved ==
    /\ (ini.log # <<>> /\ ini.before.exists /\ ini.before.json) =>
          /\ ini.file.exists /\ ini.file.json
          /\ Preserved(ini.before.value, ini.file.value)
    /\ (Len(ini.log) > 1 /\ ~ini.log[Len(ini.log)].force) =>
          /\ ini.log[Len(ini.log)].result = "Skipped"
          /\ ini.file = ini.before

(***************************************************************************)
(* topo-cli: inject_claude_md (commands/init.rs) on a project whose        *)
(* CLAUDE.md is absent or holds a text.  A text is a sequence of pieces:   *)
(* a marker, a line feed, or a character of someone's prose.               *)
(* SpecClaudeMd calls inject_claude_md up to MaxInjectCalls times.         *)
(***************************************************************************)
MaxInjectCalls == 2

MaxMdLen == 4

TOPO_START == "<!-- topo:start -->"

TOPO_END == "<!-- topo:end -->"

\* The section `topo init` injects: the template between its two markers,
\* as the tests of init.rs find it, with a line feed at the end or without.
CLAUDE_MD_SECTION == <<TOPO_START, Newline, "t", Newline, TOPO_END, Newline>>

Sections == {CLAUDE_MD_SECTION, SubSeq(CLAUDE_MD_SECTION, 1, 5)}

NoMd == [exists |-> FALSE, content |-> <<>>]

MdFile(content) == [exists |-> TRUE, content |-> content]

\* fs::read_to_string(path) when path.exists(), String::new() otherwise.
read_or_empty(file) == IF file.exists THEN file.content ELSE <<>>

\* The end of the old section, one short of what follows it: past the end
\* marker with the marker itself left in place.
section_end_before_marker(content, start) ==
    LET i == find(SubSeq(content, start, Len(content)), {TOPO_END})
    IN  IF i = 0 THEN Len(content) ELSE start + i - 2

\* content[start..].find(TOPO_END).map(|i| start + i + TOPO_END.len())
\* .unwrap_or(content.len()): the last position of the old section.
section_end(content, start) ==
    LET i == find(SubSeq(content, start, Len(content)), {TOPO_END})
    IN  IF i = 0 THEN Len(content) ELSE start + i - 1

inject_claude_md(file, section, force) ==
    LET content == read_or_empty(file)
        start == find(content, {TOPO_START})
        end == section_end(content, start)
        after == SubSeq(content, end + 1, Len(content))
        replaced == SubSeq(content, 1, start - 1) \o trim_end(section)
                    \o (IF after # <<>> THEN after ELSE <<Newline>>)
        appended == (IF content[Len(content)] # Newline
                     THEN Append(content, Newline) ELSE content)
                    \o <<Newline>> \o section
    IN  IF start # 0
        THEN IF ~force THEN [result |-> "Skipped", file |-> file]
             ELSE [result |-> "Created", file |-> MdFile(replaced)]
        ELSE IF content = <<>> THEN [result |-> "Created", file |-> MdFile(section)]
        ELSE [result |-> "Created", file |-> MdFile(appended)]

MdPieces == {"a", Newline, TOPO_START, TOPO_END}

MdFiles == {NoMd} \cup {MdFile(c) : c \in UNION {[1..n -> MdPieces] : n \in 0..MaxMdLen}}

InitClaudeMd ==
    /\ \E file \in MdFiles, section \in Sections :
          ini = [file |-> file, before |-> file, section |-> section, log |-> <<>>]
    /\ RankIdle
    /\ ch = NoChunker
    /\ tk = NoTokens
    /\ gi = NoImports
    /\ mi = NoServer
    /\ qy = NoQuery
    /\ qk = NoQuick
    /\ gr = NoImportGraph

\* One call of inject_claude_md.
InjectClaudeMd(force) ==
    /\ Len(ini.log) < MaxInjectCalls
    /\ LET out == inject_claude_md(ini.file, ini.section, force)
       IN  ini' = [ini EXCEPT !.file = out.file, !.before = ini.file,
                              !.log = Append(@, [force |-> force, result |-> out.result,
                                                 marked |-> TOPO_START \in Range(read_or_empty(ini.file))])]
    /\ UNCHANGED <<bvars, ivars, svars, cvars, LaterVars, ch, tk, gi, mi, qy, qk, gr>>

NextClaudeMd == \E force \in BOOLEAN : InjectClaudeMd(force)

SpecClaudeMd == InitClaudeMd /\ [][NextClaudeMd]_vars

IsSuffix(s, t) == Len(s) <= Len(t) /\ SubSeq(t, Len(t) - Len(s) + 1, Len(t)) = s

\* C25: after a call of inject_claude_md the text that stood before the
\* start marker (all of it, when there was no marker) still opens the file
\* and the text that stood after the end marker of the section still ends
\* it; a call without force on a file with a start marker is Skipped and
\* changes nothing; a forced call puts nothing but the section, with a line
\* feed at most, between the two; and a forced call changes nothing when
\* it follows a forced call that replaced a section, or any forced call
\* when the template ends with a line feed.
C25_UserContentPreserved ==
    ini.log # <<>> =>
        LET old == read_or_empty(ini.before)
            new == read_or_empty(ini.file)
            last == ini.log[Len(ini.log)]
            start == find(old, {TOPO_START})
            head == IF start = 0 THEN old ELSE SubSeq(old, 1, start - 1)
            stop == IF start = 0 THEN 0
                    ELSE find(SubSeq(old, start, Len(old)), {TOPO_END})
            tail == IF stop = 0 THEN <<>> ELSE SubSeq(old, start + stop, Len(old))
        IN  /\ ini.file.exists
            /\ IsPrefix(head, new)
            /\ IsSuffix(tail, new)
            /\ (start # 0 /\ ~last.force) => last.result = "Skipped" /\ ini.file = ini.before
            /\ (start # 0 /\ last.force) =>
                  /\ last.result = "Created"
                  /\ Len(new) >= Len(head) + Len(tail)
                  /\ LET between == SubSeq(new, Len(head) + 1, Len(new) - Len(tail))
                     IN  between \in {trim_end(ini.section),
                                      Append(trim_end(ini.section), Newline)}
            /\ (/\ Len(ini.log) > 1
                /\ last.force
                /\ ini.log[Len(ini.log) - 1].force
                /\ \/ ini.log[Len(ini.log) - 1].marked
                   \/ ini.section[Len(ini.section)] = Newline) =>
                  ini.file = ini.before

\* Two forced calls on a file with prose before the start marker and after
\* the end marker: the first replaced the section, the second changed
\* nothing, and the prose stands where it stood.
C25_Witness ==
    /\ Len(ini.log) = 2
    /\ ini.log[1].force /\ ini.log[1].marked
    /\ ini.log[2].force /\ ini.log[2].result = "Created"
    /\ ini.file = ini.before
    /\ ini.file.content = <<"a">> \o trim_end(ini.section) \o <<"a">>

(***************************************************************************)
(* topo-cli: write_template and write_hook (commands/init.rs) on one       *)
(* target of a project.  A path is the sequence of its components below    *)
(* the root; the project has directories and one file that matters, the    *)
(* target, with its content and whether it may be executed.  SpecTemplate  *)
(* calls the two functions up to MaxWriteCalls times.                      *)
(***************************************************************************)
MaxWriteCalls == 2

AgentsMd == <<"AGENTS.md">>

TopoContextSh == <<".claude", "hooks", "topo-context.sh">>

Targets == {AgentsMd, TopoContextSh}

Template == "template"

NoTarget == [exists |-> FALSE, content |-> "", executable |-> FALSE]

\* The directories above a path, the root left out.
ancestors(path) == {SubSeq(path, 1, n) : n \in 1..(Len(path) - 1)}

\* Path::exists.
path_exists(tree, path) == tree.target.exists

\* fs::create_dir_all(parent).
create_dir_all(tree, dir) == [tree EXCEPT !.dirs = @ \cup ancestors(dir) \cup ({dir} \ {<<>>})]

\* fs::write(path, content): the content replaced, the mode of an existing
\* file kept.
write(tree, content) ==
    [tree EXCEPT !.target = [exists |-> TRUE, content |-> content,
                             executable |-> tree.target.exists /\ tree.target.executable]]

\* fs::set_permissions(path, Permissions::from_mode(0o755)).
set_permissions(tree) == [tree EXCEPT !.target.executable = TRUE]

\* The early return taken whenever the target exists.
skips_existing(tree, path, force) == path_exists(tree, path)

\* path.exists() && !force.
skips(tree, path, force) == path_exists(tree, path) /\ ~force

write_template(tree, path, content, force) ==
    IF skips(tree, path, force) THEN [result |-> "Skipped", tree |-> tree]
    ELSE [result |-> "Created", tree |-> write(create_dir_all(tree, parent(path)), content)]

write_hook(tree, path, content, force) ==
    IF skips(tree, path, force) THEN [result |-> "Skipped", tree |-> tree]
    ELSE [result |-> "Created",
          tree |-> set_permissions(write(create_dir_all(tree, parent(path)), content))]

\* The projects calls start from: the directories above the target down to
\* some depth, and the target absent or, all directories there, present.
ProjectTrees(path) ==
    {[dirs |-> {SubSeq(path, 1, n) : n \in 1..depth}, target |-> NoTarget] :
        depth \in 0..(Len(path) - 1)}
    \cup
    {[dirs |-> ancestors(path),
      target |-> [exists |-> TRUE, content |-> content, executable |-> x]] :
        content \in {"", "original", Template}, x \in BOOLEAN}

InitTemplate ==
    /\ \E path \in Targets : \E tree \in ProjectTrees(path) :
          ini = [file |-> tree, before |-> tree, path |-> path, log |-> <<>>]
    /\ RankIdle
    /\ ch = NoChunker
    /\ tk = NoTokens
    /\ gi = NoImports
    /\ mi = NoServer
    /\ qy = NoQuery
    /\ qk = NoQuick
    /\ gr = NoImportGraph

WriteTemplate(force) ==
    /\ Len(ini.log) < MaxWriteCalls
    /\ LET out == write_template(ini.file, ini.path, Template, force)
       IN  ini' = [ini EXCEPT !.file = out.tree, !.before = ini.file,
                              !.log = Append(@, [op |-> "write_template", force |-> force,
                                                 result |-> out.result])]
    /\ UNCHANGED <<bvars, ivars, svars, cvars, LaterVars, ch, tk, gi, mi, qy, qk, gr>>

WriteHook(force) ==
    /\ Len(ini.log) < MaxWriteCalls
    /\ LET out == write_hook(ini.file, ini.path, Template, force)
       IN  ini' = [ini EXCEPT !.file = out.tree, !.before = ini.file,
                              !.log = Append(@, [op |-> "write_hook", force |-> force,
                                                 result |-> out.result])]
    /\ UNCHANGED <<bvars, ivars, svars, cvars, LaterVars, ch, tk, gi, mi, qy, qk, gr>>

NextTemplate ==
    \/ \E force \in BOOLEAN : WriteTemplate(force)
    \/ \E force \in BOOLEAN : WriteHook(force)

SpecTemplate == InitTemplate /\ [][NextTemplate]_vars

\* C26: write_template and write_hook leave an existing target alone unless
\* force is set: then the call is Skipped and the project is as it was;
\* otherwise the call is Created, every directory above the target exists
\* and the target holds the template.
C26_ExistingFileKept ==
    ini.log # <<>> =>
        LET last == ini.log[Len(ini.log)]
        IN  IF ini.before.target.exists /\ ~last.force
            THEN /\ last.result = "Skipped"
                 /\ ini.file = ini.before
            ELSE /\ last.result = "Created"
                 /\ ancestors(ini.path) \subseteq ini.file.dirs
                 /\ ini.before.dirs \subseteq ini.file.dirs
                 /\ ini.file.target.exists
                 /\ ini.file.target.content = Template

\* write_hook created the hook below two directories that were missing,
\* and a second call without force skipped it.
C26_Witness ==
    /\ Len(ini.log) = 2
    /\ ini.path = TopoContextSh
    /\ ini.log[1] = [op |-> "write_hook", force |-> FALSE, result |-> "Created"]
    /\ ini.log[2] = [op |-> "write_template", force |-> FALSE, result |-> "Skipped"]
    /\ ini.file.dirs = {<<".claude">>, <<".claude", "hooks">>}
    /\ ini.file.target.content = Template
    /\ ini.file.target.executable

(***************************************************************************)
(* atlas-cli: AtlasServer::do_index_inner (commands/mcp.rs), the index     *)
(* operation of the tool server, between changes to the files of the       *)
(* repository.  The builder it calls takes the existing index and returns  *)
(* the new index with the number of files it processed again; that form of *)
(* IndexBuilder::build is described in the specification of the builder    *)
(* (section 4.4) and is modelled from there, on top of build and           *)
(* merge_incremental.                                                      *)
(***************************************************************************)
TextFiles == {TextAuth, TextDb}

\* IndexBuilder::build(files, existing): the entry of the existing index
\* reused for every file whose SHA-256 it has, the others built, the
\* statistics recomputed, and the count of the files built.
build_existing(infos, tree, existing) ==
    LET fresh == build(infos, tree)
        reused(info) == /\ existing # None
                        /\ info.path \in DOMAIN existing[1].files
                        /\ existing[1].files[info.path].sha256 = info.sha256
    IN  [index |-> IF existing = None THEN fresh
                   ELSE merge_incremental(existing[1], fresh),
         reindexed |-> Cardinality({i \in 1..Len(infos) : ~reused(infos[i])})]

\* do_index_inner(deep, force) on a repository and an index file: whether
\* it returns Ok, and the index file afterwards.
do_index_inner(tree, file, deep, force) ==
    LET bundle_files == scan(tree)
        existing == IF force THEN Ok(None) ELSE load(file)
        built == build_existing(bundle_files, tree, existing.value)
        is_incremental == existing.value # None
        nothing_changed == is_incremental /\ built.reindexed = 0
    IN  IF ~deep THEN [ok |-> TRUE, file |-> file]
        ELSE IF ~existing.ok THEN [ok |-> FALSE, file |-> file]
        ELSE IF ~nothing_changed THEN [ok |-> TRUE, file |-> save(built.index)]
        ELSE [ok |-> TRUE, file |-> file]

InitServer ==
    /\ mi = [repo |-> [p \in Paths |-> NoFile], disk |-> NoIndexFile, scan |-> {},
             indexed |-> FALSE]
    /\ RankIdle
    /\ ch = NoChunker
    /\ tk = NoTokens
    /\ gi = NoImports
    /\ ini = NoInit
    /\ qy = NoQuery
    /\ qk = NoQuick
    /\ gr = NoImportGraph

\* A file of the repository is added or modified.
ServerWriteFile(p, bytes) ==
    /\ mi.repo[p] # bytes
    /\ mi' = [mi EXCEPT !.repo[p] = bytes]
    /\ UNCHANGED <<bvars, ivars, svars, cvars, LaterVars, ch, tk, gi, ini, qy, qk, gr>>

\* A file of the repository is deleted.
ServerDeleteFile(p) ==
    /\ mi.repo[p] # NoFile
    /\ mi' = [mi EXCEPT !.repo[p] = NoFile]
    /\ UNCHANGED <<bvars, ivars, svars, cvars, LaterVars, ch, tk, gi, ini, qy, qk, gr>>

\* A deep index operation of the tool server that succeeds.
DoIndexInner(force) ==
    /\ LET out == do_index_inner(mi.repo, mi.disk, TRUE, force)
       IN  /\ out.ok
           /\ mi' = [mi EXCEPT !.disk = out.file,
                               !.scan = {scan(mi.repo)[i].path : i \in 1..Len(scan(mi.repo))},
                               !.indexed = TRUE]
    /\ UNCHANGED <<bvars, ivars, svars, cvars, LaterVars, ch, tk, gi, ini, qy, qk, gr>>

NextServer ==
    \/ \E p \in Paths, bytes \in TextFiles : ServerWriteFile(p, bytes)
    \/ \E p \in Paths : ServerDeleteFile(p)
    \/ \E force \in BOOLEAN : DoIndexInner(force)

SpecServer == InitServer /\ [][NextServer]_vars

\* C27: once a deep index operation has succeeded, the paths of the index
\* on disk are the paths of the most recent scan: no entry of a deleted
\* file is left on disk.
C27_PersistedPathsAreScanned ==
    mi.indexed =>
        /\ load(mi.disk).ok
        /\ load(mi.disk).value # None
        /\ DOMAIN load(mi.disk).value[1].files = mi.scan

(***************************************************************************)
(* The query pipeline: run of commands/query.rs and do_query of           *)
(* commands/mcp.rs, from the scored files on, with the presets of          *)
(* preset.rs.  Scores are doubles.  SpecQuery runs the pipeline once on a  *)
(* ranking of up to MaxQueryFiles files.                                   *)
(***************************************************************************)
MaxQueryFiles == 2

Presets == {"Fast", "Balanced", "Deep", "Thorough"}

\* Preset::default_max_bytes.
default_max_bytes(preset) ==
    CASE preset = "Fast" -> 50000
      [] preset = "Balanced" -> 100000
      [] preset = "Deep" -> 200000
      [] preset = "Thorough" -> 500000

\* Preset::default_min_score: 0.05, 0.01, 0.005, 0.001.
default_min_score(preset) ==
    CASE preset = "Fast" -> F64Div(5, 100)
      [] preset = "Balanced" -> F64Div(1, 100)
      [] preset = "Deep" -> F64Div(5, 1000)
      [] preset = "Thorough" -> F64Div(1, 1000)

\* The preset's threshold, whatever was asked for.
effective_min_score_preset(min_score, preset) == default_min_score(preset)

\* min_score.unwrap_or(preset.default_min_score()).
effective_min_score(min_score, preset) ==
    IF min_score # None THEN min_score[1] ELSE default_min_score(preset)

\* max_bytes.unwrap_or(preset.default_max_bytes()).
effective_max_bytes(max_bytes, preset) ==
    IF max_bytes # None THEN max_bytes[1] ELSE default_max_bytes(preset)

\* scored.into_iter().filter(|f| f.score >= min).collect().
RECURSIVE filter_min_score(_, _)
filter_min_score(scored, min) ==
    IF scored = <<>> THEN <<>>
    ELSE (IF ~F64Less(Head(scored).score, min) THEN <<Head(scored)>> ELSE <<>>)
         \o filter_min_score(Tail(scored), min)

\* Vec::truncate(n).
truncate(v, n) == IF n < Len(v) THEN SubSeq(v, 1, n) ELSE v

\* The pipeline from the scored files to the files put out.
query_pipeline(scored, params) ==
    LET filtered == filter_min_score(scored,
                        effective_min_score(params.min_score, params.preset))
        top_n == IF params.top # None THEN truncate(filtered, params.top[1]) ELSE filtered
        token_budget == [max_bytes |-> Some(effective_max_bytes(params.max_bytes, params.preset)),
                         max_tokens |-> params.max_tokens]
    IN  enforce(token_budget, top_n)

\* The scores and sizes of the files of a ranking; 20000 tokens are 80000
\* bytes, over the default budget of Fast and under that of Balanced.
QueryScores == {F64Div(2, 1000), F64Div(2, 100), F64Div(5, 100), F64One}

QueryTokens == {1, 20000}

Rankings ==
    UNION {[1..n -> [score : QueryScores, tokens : QueryTokens]] : n \in 0..MaxQueryFiles}

QueryParams ==
    [preset : Presets,
     max_bytes : {None, Some(8)},
     max_tokens : {None, Some(2)},
     min_score : {None, Some(F64Div(2, 100))},
     top : {None} \cup {Some(n) : n \in 0..MaxQueryFiles}]

InitQuery ==
    /\ \E scored \in Rankings, params \in QueryParams :
          qy = [scored |-> [i \in 1..Len(scored) |->
                               [path |-> i, score |-> scored[i].score,
                                tokens |-> scored[i].tokens]],
                params |-> params, files |-> <<>>, done |-> FALSE]
    /\ RankIdle
    /\ ch = NoChunker
    /\ tk = NoTokens
    /\ gi = NoImports
    /\ ini = NoInit
    /\ mi = NoServer
    /\ qk = NoQuick
    /\ gr = NoImportGraph

\* The pipeline runs.
RunQuery ==
    /\ ~qy.done
    /\ qy' = [qy EXCEPT !.files = query_pipeline(qy.scored, qy.params), !.done = TRUE]
    /\ UNCHANGED <<bvars, ivars, svars, cvars, LaterVars, ch, tk, gi, ini, mi, qk, gr>>

NextQuery == RunQuery

SpecQuery == InitQuery /\ [][NextQuery]_vars

\* The minimum score in force: the explicit one, else the preset's.
MinScoreInForce ==
    IF qy.params.min_score = None
    THEN CASE qy.params.preset = "Fast" -> F64Div(5, 100)
           [] qy.params.preset = "Balanced" -> F64Div(1, 100)
           [] qy.params.preset = "Deep" -> F64Div(5, 1000)
           [] qy.params.preset = "Thorough" -> F64Div(1, 1000)
    ELSE qy.params.min_score[1]

\* The byte budget in force: the explicit one, else the preset's.
MaxBytesInForce ==
    IF qy.params.max_bytes = None
    THEN CASE qy.params.preset = "Fast" -> 50000
           [] qy.params.preset = "Balanced" -> 100000
           [] qy.params.preset = "Deep" -> 200000
           [] qy.params.preset = "Thorough" -> 500000
    ELSE qy.params.max_bytes[1]

\* The files of the ranking at or above the minimum score, in order.
ScoreFiltered ==
    LET kept == {i \in 1..Len(qy.scored) : ~F64Less(qy.scored[i].score, MinScoreInForce)}
        nth(j) == CHOOSE i \in kept : Cardinality({m \in kept : m <= i}) = j
    IN  [j \in 1..Cardinality(kept) |-> qy.scored[nth(j)]]

WithinBudget(fs) ==
    /\ SumTokens(fs, Len(fs)) * 4 <= MaxBytesInForce
    /\ qy.params.max_tokens # None => SumTokens(fs, Len(fs)) <= qy.params.max_tokens[1]

\* C28: the files a query returns all score at least the minimum score in
\* force, are at most N when top = N is given, and form a prefix of the
\* score-filtered ranking that is within the budget unless it is a single
\* file; the filter comes before the truncation and the truncation before
\* the budget, so that the first N filtered files are returned whole when
\* they fit the budget.
C28_FilterTopBudget ==
    qy.done =>
        LET first_n == IF qy.params.top = None \/ Len(ScoreFiltered) <= qy.params.top[1]
                       THEN ScoreFiltered
                       ELSE SubSeq(ScoreFiltered, 1, qy.params.top[1])
        IN  /\ \A i \in 1..Len(qy.files) : ~F64Less(qy.files[i].score, MinScoreInForce)
            /\ qy.params.top # None => Len(qy.files) <= qy.params.top[1]
            /\ IsPrefix(qy.files, ScoreFiltered)
            /\ Len(qy.files) > 1 => WithinBudget(qy.files)
            /\ WithinBudget(first_n) => qy.files = first_n

\* A query with top = 1 and no explicit minimum under Fast, on a ranking
\* whose first file is below the preset's 0.05 and whose second is at it:
\* the second file comes back alone.
C28_Witness ==
    /\ qy.done
    /\ qy.params.preset = "Fast"
    /\ qy.params.min_score = None
    /\ qy.params.top = Some(1)
    /\ Len(qy.scored) = 2
    /\ F64Less(qy.scored[1].score, F64Div(5, 100))
    /\ qy.scored[2].score = F64Div(5, 100)
    /\ qy.files = <<qy.scored[2]>>

(***************************************************************************)
(* atlas-cli: the quick command (commands/quick.rs): the index command     *)
(* when the preset needs a deep index, then the query command.  The index  *)
(* step is RunIndex, on the repository and the index file of Spec.         *)
(* SpecQuick runs quick once, for each preset, on a repository whose index *)
(* file is absent, damaged, or left by an earlier build.                   *)
(***************************************************************************)
\* Preset::needs_deep_index.
needs_deep_index(preset) == preset \in {"Balanced", "Deep", "Thorough"}

\* No preset rebuilds from scratch.
force_rebuild_never(preset) == FALSE

\* Preset::force_rebuild.
force_rebuild(preset) == preset \in {"Deep", "Thorough"}

Repositories == [Paths -> FileBytes \cup {NoFile}]

IndexFiles ==
    {NoIndexFile, GarbageFile}
    \cup {save(legacy_index(scan(tree), CurrentVersion)) : tree \in Repositories}

InitQuick ==
    /\ repo \in Repositories
    /\ disk \in IndexFiles
    /\ run = NoRun
    /\ \E preset \in Presets :
          qk = [preset |-> preset, disk |-> disk, log |-> <<>>, pc |-> "index"]
    /\ BudgetIdle
    /\ StatsIdle
    /\ CallsIdle
    /\ par = NoPar
    /\ ig = NoGraph
    /\ go = NoResolve
    /\ fr = NoRole
    /\ sc = NoScan
    /\ pr = NoRank
    /\ ch = NoChunker
    /\ tk = NoTokens
    /\ gi = NoImports
    /\ ini = NoInit
    /\ mi = NoServer
    /\ qy = NoQuery
    /\ gr = NoImportGraph

\* Step 1 for a preset that needs a deep index:
\* super::index::run(cli, true, preset.force_rebuild())?.
QuickIndex ==
    /\ qk.pc = "index"
    /\ needs_deep_index(qk.preset)
    /\ RunIndex(TRUE, force_rebuild(qk.preset))
    /\ qk' = [qk EXCEPT !.log = Append(@, "index"),
                        !.pc = IF run'.outcome = "ok" THEN "query" ELSE "failed"]
    /\ UNCHANGED <<bvars, svars, cvars, LaterVars, ch, tk, gi, ini, mi, qy, gr>>

\* Step 1 for the other presets: nothing but a message.
QuickShallow ==
    /\ qk.pc = "index"
    /\ ~needs_deep_index(qk.preset)
    /\ qk' = [qk EXCEPT !.pc = "query"]
    /\ UNCHANGED <<bvars, ivars, svars, cvars, LaterVars, ch, tk, gi, ini, mi, qy, gr>>

\* Step 2: super::query::run, which scans and scores and neither reads nor
\* writes the index file.
QuickQuery ==
    /\ qk.pc = "query"
    /\ qk' = [qk EXCEPT !.log = Append(@, "query"), !.pc = "done"]
    /\ run' = [NoRun EXCEPT !.cmd = "query", !.outcome = "ok"]
    /\ UNCHANGED <<repo, disk>>
    /\ UNCHANGED <<bvars, svars, cvars, LaterVars, ch, tk, gi, ini, mi, qy, gr>>

NextQuick == QuickIndex \/ QuickShallow \/ QuickQuery

SpecQuick == InitQuick /\ [][NextQuick]_vars

\* The entries of the index file f, as load gives them; none when there is
\* no file or no index in it.
EntriesOnDisk(f) ==
    IF load(f).ok /\ load(f).value # None THEN load(f).value[1].files
    ELSE [p \in {} |-> NoFile]

\* C29: quick indexes, then queries.  When the query step of a preset that
\* needs a deep index starts, the index file holds an index of the scanned
\* files: under Deep and Thorough every entry is the freshly built one,
\* whatever the file held before; under Balanced an entry of the earlier
\* index is kept where its SHA-256 is that of the file.  Under Fast the index
\* file is never read or written.  When the index step fails, the query
\* step does not run.
C29_IndexThenQuery ==
    LET fresh == EntriesOnDisk(save(build(scan(repo), repo)))
        before == EntriesOnDisk(qk.disk)
        now == EntriesOnDisk(disk)
    IN  /\ (qk.pc \in {"query", "done"} /\ qk.preset \in {"Balanced", "Deep", "Thorough"}) =>
              /\ qk.log[1] = "index"
              /\ load(disk).ok /\ load(disk).value # None
              /\ DOMAIN now = DOMAIN fresh
              /\ \A p \in DOMAIN now :
                    now[p] = IF /\ qk.preset = "Balanced"
                                /\ p \in DOMAIN before
                                /\ before[p].sha256 = fresh[p].sha256
                             THEN before[p] ELSE fresh[p]
        /\ qk.preset = "Fast" =>
              /\ disk = qk.disk
              /\ "index" \notin Range(qk.log)
              /\ run.cmd # "index"
        /\ qk.pc = "failed" => qk.log = <<"index">>
        /\ qk.pc = "done" => qk.log \in {<<"index", "query">>, <<"query">>}

\* quick has run under Balanced over an index file of an earlier build and
\* has kept one of its entries; the query step has run after the index step.
C29_Witness ==
    /\ qk.pc = "done"
    /\ qk.preset = "Balanced"
    /\ qk.log = <<"index", "query">>
    /\ \E p \in DOMAIN EntriesOnDisk(disk) \cap DOMAIN EntriesOnDisk(qk.disk) :
          /\ EntriesOnDisk(disk)[p] = EntriesOnDisk(qk.disk)[p]
          /\ EntriesOnDisk(disk)[p] # EntriesOnDisk(save(build(scan(repo), repo)))[p]

(***************************************************************************)
(* atlas-score: ImportGraph as a data structure (pagerank.rs 10-55 and    *)
(* 138-144).  SpecGraphOps constructs a graph with new or from_imports    *)
(* and then calls add_node and add_edge on it, in any order, keeping      *)
(* beside the graph the paths the calls mentioned and the number of       *)
(* add_edge calls made, those inside from_imports included.               *)
(***************************************************************************)

\* The number of calls on one graph, the constructor included.
MaxGraphCalls == 3

\* The number of entries of the list from_imports is given.
MaxImports == 2

\* ImportGraph::from_imports: add_node(file), then add_edge(file, dep) for
\* each dep, entry by entry.
RECURSIVE from_imports_from(_, _, _)
from_imports_from(g, imports, i) ==
    IF i > Len(imports) THEN g
    ELSE from_imports_from(
            add_edges(add_node(g, imports[i][1]), imports[i][1], imports[i][2], 1),
            imports, i + 1)

from_imports(imports) == from_imports_from(new_graph, imports, 1)

\* ImportGraph::node_count
node_count(g) == Len(g.nodes)

\* ImportGraph::edge_count: the lengths of the values of the edge map, summed.
RECURSIVE sum_values(_, _)
sum_values(edges, keys) ==
    IF keys = {} THEN 0
    ELSE LET k == CHOOSE k \in keys : TRUE
         IN  Len(edges[k]) + sum_values(edges, keys \ {k})

edge_count(g) == sum_values(g.edges, DOMAIN g.edges)

\* The paths of the calls (those of tests::graph_counts), and the paths of
\* the lists given to from_imports.
GraphFiles == {"a.rs", "b.rs", "c.rs"}
ImportFiles == {"a.rs", "b.rs"}

\* The imports of one file: some of ImportFiles, each once, in any order.
ImportedLists ==
    UNION { { d \in [1..Cardinality(s) -> s] :
                \A i, j \in 1..Cardinality(s) : d[i] = d[j] => i = j } :
            s \in SUBSET ImportFiles }

ImportEntries == ImportFiles \X ImportedLists

ImportLists == UNION { [1..n -> ImportEntries] : n \in 0..MaxImports }

InitGraphOps ==
    /\ gr = [graph |-> new_graph, mentioned |-> {}, add_edge_calls |-> 0, calls |-> 0]
    /\ RankIdle
    /\ ch = NoChunker
    /\ tk = NoTokens
    /\ gi = NoImports
    /\ ini = NoInit
    /\ mi = NoServer
    /\ qy = NoQuery
    /\ qk = NoQuick

GraphOpsFrame == UNCHANGED <<bvars, ivars, svars, cvars, LaterVars, ch, tk, gi, ini, mi, qy, qk>>

RECURSIVE imported_paths(_, _)
imported_paths(imports, i) ==
    IF i > Len(imports) THEN {}
    ELSE {imports[i][1]} \cup {imports[i][2][j] : j \in 1..Len(imports[i][2])}
            \cup imported_paths(imports, i + 1)

RECURSIVE imported_count(_, _)
imported_count(imports, i) ==
    IF i > Len(imports) THEN 0
    ELSE Len(imports[i][2]) + imported_count(imports, i + 1)

\* The graph is constructed by from_imports instead of new.
FromImports ==
    /\ gr.calls = 0
    /\ \E imports \in ImportLists :
          gr' = [graph |-> from_imports(imports),
                 mentioned |-> imported_paths(imports, 1),
                 add_edge_calls |-> imported_count(imports, 1),
                 calls |-> 1]
    /\ GraphOpsFrame

AddNode ==
    /\ gr.calls < MaxGraphCalls
    /\ \E path \in GraphFiles :
          gr' = [gr EXCEPT !.graph = add_node(gr.graph, path),
                           !.mentioned = @ \cup {path},
                           !.calls = @ + 1]
    /\ GraphOpsFrame

AddEdge ==
    /\ gr.calls < MaxGraphCalls
    /\ \E from \in GraphFiles, to \in GraphFiles :
          gr' = [gr EXCEPT !.graph = add_edge(gr.graph, from, to),
                           !.mentioned = @ \cup {from, to},
                           !.add_edge_calls = @ + 1,
                           !.calls = @ + 1]
    /\ GraphOpsFrame

NextGraphOps ==
    \/ FromImports
    \/ AddNode
    \/ AddEdge

SpecGraphOps == InitGraphOps /\ [][NextGraphOps]_vars

\* C30: after any sequence of add_node, add_edge and from_imports calls the
\* node list holds no path twice, the node list is the key set of the edge
\* map, every edge target is a node, node_count is the number of distinct
\* paths the calls mentioned, and edge_count is the number of add_edge calls.
C30_GraphWellFormed ==
    LET g == gr.graph
        NodeSet == {g.nodes[i] : i \in 1..Len(g.nodes)}
    IN  /\ \A i, j \in 1..Len(g.nodes) : g.nodes[i] = g.nodes[j] => i = j
        /\ NodeSet = DOMAIN g.edges
        /\ \A from \in DOMAIN g.edges :
              \A k \in 1..Len(g.edges[from]) : g.edges[from][k] \in NodeSet
        /\ node_count(g) = Cardinality(gr.mentioned)
        /\ edge_count(g) = gr.add_edge_calls
        /\ NodeSet = gr.mentioned

\* from_imports gave a file importing the same path as an earlier entry of
\* the same file, and add_edge then added that edge once more and add_node
\* named a path already there: three equal edges, two nodes.
C30_Witness ==
    /\ gr.calls = MaxGraphCalls
    /\ gr.add_edge_calls = 3
    /\ gr.graph.nodes = <<"a.rs", "b.rs">>
    /\ gr.graph.edges["a.rs"] = <<"b.rs", "b.rs", "b.rs">>
    /\ edge_count(gr.graph) = 3
    /\ node_count(gr.graph) = 2
====
